---- MODULE Spec2Model ----
(***************************************************************************)
(* A model of the CivicFix retrieval-fusion-and-decision engine:           *)
(*   core/recommend.py  (channel recommender)                              *)
(*   core/hybrid.py     (reciprocal-rank fusion, sparse index cache)       *)
(*   core/memory.py     (per-user memory store)                            *)
(*   core/agent_v2.py   (decision orchestrator, slot-filling gate)         *)
(* Each component has its own specification (SpecChan, SpecFuse, ...): the *)
(* variables of the other components stay at their idle values.            *)
(***************************************************************************)
EXTENDS Integers, Sequences, FiniteSets, TLC

VARIABLES
    chan,       \* recommend_channel call: its arguments and what it returned
    fuse,       \* rrf_fuse call: its arguments and what it returned
    live,       \* number of points of the backing collection that match the filter
    cache,      \* HybridRetriever._cache entry of the (collection, filter) key
    look,       \* what the latest _get_or_build call saw and did
    store,      \* the user_memory collection: its points, in id order
    now,        \* the clock (now_utc), in days
    next_id,    \* the id the next new point gets (a microsecond timestamp)
    memop,      \* the latest Memory Store operation and what it returned
    streak,     \* per user: reinforce calls since the user had no preference
    agent,      \* assist_new call: its arguments, what the lookups answered,
                \* and what it returned
    tickets,    \* the rows of the tickets table, in insertion order
    renders,    \* number of complaint templates rendered (fill_template calls)
    llm_calls,  \* number of renderings requested from the language model
    esc,        \* escalation_steps call: its arguments and what it returned
    found,      \* the latest HybridRetriever.search call and what it returned
    rr,         \* rerank call: its arguments and what it returned
    app,        \* the latest POST /v1/complaints/assist request and its answer
    sessions,   \* the session store: number of messages kept for the session
    objects,    \* the object store: number of uploads written by put_bytes
    threads     \* per thread inside a shared component: where it is in its
                \* call and what it has read so far

vars == <<chan, fuse, live, cache, look, store, now, next_id, memop, streak,
          agent, tickets, renders, llm_calls, esc, found, rr,
          app, sessions, objects, threads>>
cacheVars == <<live, cache, look>>
memVars == <<store, now, next_id, memop, streak>>
appVars == <<app, sessions, objects, threads>>
agentVars == <<agent, tickets, renders, llm_calls, esc, found, rr, appVars>>

\* The value of a component's variable in the specifications of the others.
Idle == [op |-> "idle"]

\* The threads that serve requests at the same time, and a thread that is
\* not inside a call.
Threads == {"t1", "t2"}
ThreadIdle == [pc |-> "idle"]

\* The HTTP front end before any request.
AppIdle == app = Idle /\ sessions = 0 /\ objects = 0 /\ threads = Idle

\* self._cache.get(k) when the key has no entry.
NoEntry == [present |-> FALSE]

\* Python's None.
None == "None"

Min(a, b) == IF a <= b THEN a ELSE b
Max(a, b) == IF a >= b THEN a ELSE b
Abs(a) == IF a >= 0 THEN a ELSE 0 - a

Range(s) == {s[i] : i \in DOMAIN s}

\* All sequences over S of length 0..n.
SeqsUpTo(S, n) == UNION {[1..m -> S] : m \in 0..n}

\* list.sort(key=lambda x: x[1], reverse=True) on a list of (item, score)
\* pairs: Python's sort is stable, also when reversed, so pairs with equal
\* scores keep their input order.  InsertDesc inserts x after every pair
\* whose score is >= the score of x; InsertDescTiesReversed inserts it
\* ahead of the pairs of equal score.
RECURSIVE InsertDescTiesReversed(_, _)
InsertDescTiesReversed(sorted, x) ==
    IF sorted = <<>> THEN <<x>>
    ELSE IF Head(sorted)[2] > x[2]
         THEN <<Head(sorted)>> \o InsertDescTiesReversed(Tail(sorted), x)
         ELSE <<x>> \o sorted

RECURSIVE InsertDesc(_, _)
InsertDesc(sorted, x) ==
    IF sorted = <<>> THEN <<x>>
    ELSE IF Head(sorted)[2] >= x[2]
         THEN <<Head(sorted)>> \o InsertDesc(Tail(sorted), x)
         ELSE <<x>> \o sorted

RECURSIVE SortDescFrom(_, _)
SortDescFrom(sorted, rest) ==
    IF rest = <<>> THEN sorted
    ELSE SortDescFrom(InsertDesc(sorted, Head(rest)), Tail(rest))

StableSortDesc(s) == SortDescFrom(<<>>, s)

(***************************************************************************)
(* Memory Store (core/memory.py): the user_memory collection.  A point is  *)
(* a record; store lists the points in id order, the order a scroll        *)
(* returns them in.  Time is counted in days.                              *)
(***************************************************************************)
Users == {"u1", "u2"}
MemChannels == {"helpline", "email"}

PREF_TTL_DAYS == 180
HISTORY_TTL_DAYS == 365
MEMORY_GET_LIMIT == 20
SCROLL_LIMIT == 1000

MaxNew == 2
MaxWeight == 3
MaxNow == 400
TickDays == {180, 200}

NoStreak == [n |-> 0, channel |-> None]

\* The orchestrator before any request.
AgentIdle ==
    /\ agent = Idle /\ tickets = <<>> /\ renders = 0 /\ llm_calls = 0
    /\ esc = Idle /\ found = Idle /\ rr = Idle
    /\ AppIdle

\* The Memory Store before any request.
MemIdle ==
    /\ store = <<>> /\ now = 0 /\ next_id = 1 /\ memop = Idle
    /\ streak = [u \in Users |-> NoStreak]

(***************************************************************************)
(* Channel recommender (core/recommend.py).  Scores are in tenths:         *)
(* 2.0 is 20, 0.6 is 6, -2.5 is -25.                                        *)
(***************************************************************************)
Channels == {"portal", "helpline", "email", "app", "office"}
Urgencies == {"low", "medium", "high"}
\* What get_channel_status(city, "portal") can return: no status point
\* (None) or the point's status field.
PortalStatuses == {None, "up", "down", "degraded"}
\* A user preference: None, the empty form field, or a channel name.
UserPrefs == {None, ""} \cup Channels

MaxChannels == 3

\* score_channel with the medium-urgency branch favouring the channels of the
\* high-urgency branch.
score_channel_wrong_medium(channel, urgency, portal_ok, user_pref) ==
    LET base == IF urgency = "high"
                THEN (IF channel \in {"helpline", "email"} THEN 20 ELSE 6)
                ELSE IF urgency = "medium"
                THEN (IF channel \in {"helpline", "email"} THEN 12 ELSE 5)
                ELSE (IF channel \in {"portal", "app"} THEN 10 ELSE 3)
        pen  == IF channel = "portal" /\ ~portal_ok THEN base - 25 ELSE base
    IN  IF user_pref \notin {None, ""} /\ channel = user_pref
        THEN pen + 15 ELSE pen

\* score_channel with the portal-down penalty as small as the preference bias.
score_channel_small_penalty(channel, urgency, portal_ok, user_pref) ==
    LET base == IF urgency = "high"
                THEN (IF channel \in {"helpline", "email"} THEN 20 ELSE 6)
                ELSE IF urgency = "medium"
                THEN (IF channel \in {"app", "portal"} THEN 12 ELSE 5)
                ELSE (IF channel \in {"portal", "app"} THEN 10 ELSE 3)
        pen  == IF channel = "portal" /\ ~portal_ok THEN base - 15 ELSE base
    IN  IF user_pref \notin {None, ""} /\ channel = user_pref
        THEN pen + 15 ELSE pen

score_channel(channel, urgency, portal_ok, user_pref) ==
    LET base == IF urgency = "high"
                THEN (IF channel \in {"helpline", "email"} THEN 20 ELSE 6)
                ELSE IF urgency = "medium"
                THEN (IF channel \in {"app", "portal"} THEN 12 ELSE 5)
                ELSE (IF channel \in {"portal", "app"} THEN 10 ELSE 3)
        pen  == IF channel = "portal" /\ ~portal_ok THEN base - 25 ELSE base
    IN  IF user_pref \notin {None, ""} /\ channel = user_pref
        THEN pen + 15 ELSE pen

\* recommend_channel with the status lookup's answer as a parameter.
recommend_channel(channels, portal_status, urgency, user_pref) ==
    LET portal_ok == (portal_status = None \/ portal_status = "up")
        scored == StableSortDesc(
                    [i \in 1..Len(channels) |->
                        <<channels[i],
                          score_channel(channels[i], urgency, portal_ok, user_pref)>>])
    IN  [best      |-> IF Len(scored) > 0 THEN scored[1][1] ELSE None,
         backup    |-> IF Len(scored) > 1 THEN scored[2][1] ELSE None,
         scored    |-> scored,
         portal_ok |-> portal_ok]

\* A pending call holds its arguments; RecommendChannel runs it.
InitChan ==
    /\ AgentIdle
    /\ fuse = Idle
    /\ live = 0 /\ cache = NoEntry /\ look = Idle
    /\ MemIdle
    /\ \E channels \in SeqsUpTo(Channels, MaxChannels), st \in PortalStatuses,
       urgency \in Urgencies, pref \in UserPrefs :
          chan = [op |-> "call", channels |-> channels, portal_status |-> st,
                  urgency |-> urgency, user_pref |-> pref]

RecommendChannel ==
    /\ chan.op = "call"
    /\ chan' = [op |-> "done", channels |-> chan.channels,
                portal_status |-> chan.portal_status,
                urgency |-> chan.urgency, user_pref |-> chan.user_pref,
                out |-> recommend_channel(chan.channels, chan.portal_status,
                                          chan.urgency, chan.user_pref)]
    /\ UNCHANGED <<fuse, cacheVars, memVars, agentVars>>

NextChan == RecommendChannel

SpecChan == InitChan /\ [][NextChan]_vars

(***************************************************************************)
(* Fusion engine (core/hybrid.py, rrf_fuse).  A fused score is a sum of     *)
(* reciprocals 1/(k + rank); it is kept as an exact fraction <<num, den>>   *)
(* with den > 0 (the code adds IEEE doubles).                               *)
(***************************************************************************)
FracAdd(a, b) == <<a[1] * b[2] + b[1] * a[2], a[2] * b[2]>>
FracGeq(a, b) == a[1] * b[2] >= b[1] * a[2]
FracEq(a, b) == a[1] * b[2] = b[1] * a[2]
FracZero == <<0, 1>>

DocIds == {"d1", "d2", "d3"}
RRF_K == 60
Ks == {0, 1, RRF_K}
MaxLists == 2
MaxLen == 3
MaxTopk == 3

\* A ranked list as a search returns it: no id twice in one list.
RankedIdLists ==
    {s \in SeqsUpTo(DocIds, MaxLen) :
        \A i, j \in DOMAIN s : i # j => s[i] # s[j]}

\* A hit of list number j: origin stands for the fields (payload, score,
\* bm25_score) this occurrence of the document carries.
Hit(id, j) == [id |-> id, origin |-> j]
HitLists(idlists) ==
    [j \in DOMAIN idlists |->
        [r \in DOMAIN idlists[j] |-> Hit(idlists[j][r], j)]]

\* scores[doc_id] = 1.0 / (k + rank), forgetting what the earlier lists gave.
accumulate_overwrite(prev, k, rank) == <<1, k + rank>>

\* scores[doc_id] = scores.get(doc_id, 0.0) + 1.0 / (k + rank)
accumulate(prev, k, rank) == FracAdd(prev, <<1, k + rank>>)

\* The two dicts of rrf_fuse; order is the insertion order of their keys.
EmptyAcc == [order |-> <<>>, scores |-> [i \in {} |-> FracZero], items |-> [i \in {} |-> Idle]]

\* One pass of the inner loop body for hit d at 1-based position rank.
FuseStep(acc, d, k, rank) ==
    LET seen == d.id \in DOMAIN acc.scores
        prev == IF seen THEN acc.scores[d.id] ELSE FracZero
    IN  [order  |-> IF seen THEN acc.order ELSE Append(acc.order, d.id),
         scores |-> [i \in DOMAIN acc.scores \cup {d.id} |->
                        IF i = d.id THEN accumulate(prev, k, rank) ELSE acc.scores[i]],
         items  |-> [i \in DOMAIN acc.items \cup {d.id} |->
                        IF i = d.id THEN d ELSE acc.items[i]]]

\* for rank, d in enumerate(l, start=1), from position rank on.
RECURSIVE FuseList(_, _, _, _)
FuseList(acc, l, k, rank) ==
    IF rank > Len(l) THEN acc
    ELSE FuseList(FuseStep(acc, l[rank], k, rank), l, k, rank + 1)

\* for l in lists, from list number j on.
RECURSIVE FuseLists(_, _, _, _)
FuseLists(acc, lists, k, j) ==
    IF j > Len(lists) THEN acc
    ELSE FuseLists(FuseList(acc, lists[j], k, 1), lists, k, j + 1)

\* fused.sort(key=lambda x: x["rrf_score"], reverse=True) with every record
\* placed before the records of equal score.
RECURSIVE InsertFusedTiesReversed(_, _)
InsertFusedTiesReversed(sorted, x) ==
    IF sorted = <<>> THEN <<x>>
    ELSE IF FracGeq(x.rrf_score, Head(sorted).rrf_score)
         THEN <<x>> \o sorted
         ELSE <<Head(sorted)>> \o InsertFusedTiesReversed(Tail(sorted), x)

\* fused.sort(key=lambda x: x["rrf_score"], reverse=True): stable.
RECURSIVE InsertFused(_, _)
InsertFused(sorted, x) ==
    IF sorted = <<>> THEN <<x>>
    ELSE IF FracGeq(Head(sorted).rrf_score, x.rrf_score)
         THEN <<Head(sorted)>> \o InsertFused(Tail(sorted), x)
         ELSE <<x>> \o sorted

RECURSIVE SortFusedFrom(_, _)
SortFusedFrom(sorted, rest) ==
    IF rest = <<>> THEN sorted
    ELSE SortFusedFrom(InsertFused(sorted, Head(rest)), Tail(rest))

\* fused[:topk] for topk >= 0.
Truncate(s, topk) == SubSeq(s, 1, Min(topk, Len(s)))

rrf_fuse(lists, k, topk) ==
    LET acc   == FuseLists(EmptyAcc, lists, k, 1)
        fused == [n \in DOMAIN acc.order |->
                    [id        |-> acc.order[n],
                     origin    |-> acc.items[acc.order[n]].origin,
                     rrf_score |-> acc.scores[acc.order[n]]]]
    IN  Truncate(SortFusedFrom(<<>>, fused), topk)

InitFuse ==
    /\ AgentIdle
    /\ chan = Idle
    /\ live = 0 /\ cache = NoEntry /\ look = Idle
    /\ MemIdle
    /\ \E idlists \in SeqsUpTo(RankedIdLists, MaxLists), k \in Ks, topk \in 0..MaxTopk :
          fuse = [op |-> "call", lists |-> HitLists(idlists), k |-> k, topk |-> topk]

RrfFuse ==
    /\ fuse.op = "call"
    /\ fuse' = [op |-> "done", lists |-> fuse.lists, k |-> fuse.k, topk |-> fuse.topk,
                out |-> rrf_fuse(fuse.lists, fuse.k, fuse.topk)]
    /\ UNCHANGED <<chan, cacheVars, memVars, agentVars>>

NextFuse == RrfFuse

SpecFuse == InitFuse /\ [][NextFuse]_vars

(***************************************************************************)
(* Sparse index cache (core/hybrid.py, HybridRetriever) for one            *)
(* (collection, filter) key.  The collection is its number of matching     *)
(* points; other writers (ingestion, deletion) change it between lookups.  *)
(***************************************************************************)
MaxDocs == 40
FETCH_LIMIT == 5000

\* int(0.1 * qcount) for qcount >= 0: truncation.
IntTenth(q) == q \div 10

\* build_bm25_from_qdrant: scrolls at most limit points and caches them;
\* the entry's count is the number of documents fetched.
build_bm25_from_qdrant(n) == [present |-> TRUE, count |-> Min(n, FETCH_LIMIT)]

\* _count: client.count, or when it raises the scroll of one point, which
\* answers 0 for an empty collection and 1 otherwise.
count_points(n, count_ok) == IF count_ok THEN n ELSE IF n = 0 THEN 0 ELSE 1

\* The staleness test of _get_or_build for an existing entry.
is_stale(qcount, cached) ==
    qcount > 0 /\ Abs(qcount - cached) >= Max(3, IntTenth(qcount))

InitCache ==
    /\ AgentIdle
    /\ chan = Idle /\ fuse = Idle
    /\ live = 0 /\ cache = NoEntry /\ look = Idle
    /\ MemIdle

\* Another writer upserts n points that match the filter.
Ingest ==
    \E n \in 1..(MaxDocs - live) :
        /\ live' = live + n
        /\ look' = Idle
        /\ UNCHANGED <<cache, chan, fuse, memVars, agentVars>>

\* Another writer deletes n points that match the filter.
Remove ==
    \E n \in 1..live :
        /\ live' = live - n
        /\ look' = Idle
        /\ UNCHANGED <<cache, chan, fuse, memVars, agentVars>>

\* _get_or_build on a key without an entry: build.
LookupMissing ==
    /\ ~cache.present
    /\ cache' = build_bm25_from_qdrant(live)
    /\ look' = [op |-> "lookup", had_entry |-> FALSE, live |-> live,
                count_ok |-> TRUE, qcount |-> live, cached |-> 0, rebuilt |-> TRUE]
    /\ UNCHANGED <<live, chan, fuse, memVars, agentVars>>

\* _get_or_build on a key with an entry: count, rebuild when stale.
LookupCached ==
    /\ cache.present
    /\ \E count_ok \in BOOLEAN :
        LET qcount == count_points(live, count_ok)
            stale  == is_stale(qcount, cache.count)
        IN  /\ cache' = IF stale THEN build_bm25_from_qdrant(live) ELSE cache
            /\ look' = [op |-> "lookup", had_entry |-> TRUE, live |-> live,
                        count_ok |-> count_ok, qcount |-> qcount,
                        cached |-> cache.count, rebuilt |-> stale]
    /\ UNCHANGED <<live, chan, fuse, memVars, agentVars>>

NextCache == Ingest \/ Remove \/ LookupMissing \/ LookupCached

SpecCache == InitCache /\ [][NextCache]_vars

\* Lookups of a key whose collection holds about as many matching points
\* as build_bm25_from_qdrant fetches, or more; the collection does not
\* change.
LargeCollections ==
    ((FETCH_LIMIT - MaxDocs)..(FETCH_LIMIT + MaxDocs)) \cup {FETCH_LIMIT + 1000}

InitCacheLarge ==
    /\ AgentIdle
    /\ chan = Idle /\ fuse = Idle
    /\ live \in LargeCollections /\ cache = NoEntry /\ look = Idle
    /\ MemIdle

NextCacheLarge == LookupMissing \/ LookupCached

SpecCacheLarge == InitCacheLarge /\ [][NextCacheLarge]_vars

(***************************************************************************)
(* Claims about the fusion engine.                                         *)
(***************************************************************************)
IdsOf(l) == {l[r].id : r \in DOMAIN l}
AllIds(lists) == UNION {IdsOf(lists[j]) : j \in DOMAIN lists}
PosIn(l, id) == CHOOSE r \in DOMAIN l : l[r].id = id

\* The sum over lists j..Len(lists) of 1/(k + position of id in the list),
\* a list that does not hold id giving 0.
RECURSIVE ReciprocalRankSum(_, _, _, _)
ReciprocalRankSum(lists, id, k, j) ==
    IF j > Len(lists) THEN FracZero
    ELSE FracAdd(IF id \in IdsOf(lists[j])
                 THEN <<1, k + PosIn(lists[j], id)>> ELSE FracZero,
                 ReciprocalRankSum(lists, id, k, j + 1))

\* C7: the fused score of every returned document id is the sum, over the
\* lists that hold the id, of 1/(k + rank), rank its 1-based position there;
\* a list without the id contributes 0.
C7_FusedScoreIsReciprocalRankSum ==
    fuse.op = "done" =>
        \A n \in DOMAIN fuse.out :
            FracEq(fuse.out[n].rrf_score,
                   ReciprocalRankSum(fuse.lists, fuse.out[n].id, fuse.k, 1))

\* d1 first in both lists with k = 60 scores 1/61 + 1/61 and precedes d2,
\* which only the second list holds.
C7_Witness ==
    /\ fuse.op = "done" /\ fuse.k = RRF_K
    /\ fuse.lists = HitLists(<< <<"d1">>, <<"d1", "d2">> >>)
    /\ Len(fuse.out) = 2
    /\ fuse.out[1].id = "d1" /\ FracEq(fuse.out[1].rrf_score, <<2, 61>>)
    /\ fuse.out[2].id = "d2" /\ FracEq(fuse.out[2].rrf_score, <<1, 62>>)

\* The place of id's first occurrence: list number, then position.
FirstList(lists, id) == CHOOSE j \in DOMAIN lists :
    id \in IdsOf(lists[j]) /\ \A i \in 1..(j - 1) : id \notin IdsOf(lists[i])
AppearsBefore(lists, a, b) ==
    \/ FirstList(lists, a) < FirstList(lists, b)
    \/ /\ FirstList(lists, a) = FirstList(lists, b)
       /\ PosIn(lists[FirstList(lists, a)], a) < PosIn(lists[FirstList(lists, a)], b)

\* C8: the output holds every id at most once, has length
\* min(topk, number of distinct input ids), is ordered by non-increasing
\* fused score, and records of equal score keep the order of their first
\* appearance in the inputs.
C8_FusedOrderAndLength ==
    fuse.op = "done" =>
        /\ \A m, n \in DOMAIN fuse.out : m # n => fuse.out[m].id # fuse.out[n].id
        /\ Len(fuse.out) = Min(fuse.topk, Cardinality(AllIds(fuse.lists)))
        /\ \A m, n \in DOMAIN fuse.out : m < n =>
              /\ FracGeq(fuse.out[m].rrf_score, fuse.out[n].rrf_score)
              /\ FracEq(fuse.out[m].rrf_score, fuse.out[n].rrf_score)
                    => AppearsBefore(fuse.lists, fuse.out[m].id, fuse.out[n].id)

\* Lists [d2, d1] and [d1, d2]: both ids score 1/61 + 1/62, d2 appears
\* first and stays first; topk = 1 cuts the output below the two ids.
C8_Witness ==
    /\ fuse.op = "done" /\ fuse.k = RRF_K /\ fuse.topk = 1
    /\ fuse.lists = HitLists(<< <<"d2", "d1">>, <<"d1", "d2">> >>)
    /\ Len(fuse.out) = 1 /\ fuse.out[1].id = "d2"

(***************************************************************************)
(* Memory Store operations.                                                *)
(***************************************************************************)
\* The payload memory_upsert writes (delete_flag False, last_updated now).
\* pref_weight and ttl_days are stored as decimal strings and read back
\* with int(); they are kept as the numbers they denote.
Point(id, user, type, channel, weight, ttl, at) ==
    [id |-> id, user_id |-> user, type |-> type, pref_channel |-> channel,
     pref_weight |-> weight, ttl_days |-> ttl, last_updated |-> at,
     delete_flag |-> FALSE]

\* client.upsert of one point: replaces the point of that id, or adds it.
\* A new id is a later timestamp than every stored id, so it goes last.
memory_upsert(points, p) ==
    IF \E i \in DOMAIN points : points[i].id = p.id
    THEN [i \in DOMAIN points |-> IF points[i].id = p.id THEN p ELSE points[i]]
    ELSE Append(points, p)

\* build_filter(user_id=user): None adds no condition.
MatchesUser(r, user) == user = None \/ r.user_id = user

NoHit == 0

\* memory_get(user_id, limit=20) followed by the caller's scan for the first
\* hit of type preference.  The hits are the limit most similar non-deleted
\* points of the user; similarity depends on the stored texts (feedback
\* notes are free text), so any ranking is possible.  The result is the id
\* of a preference point, or NoHit when the user has none or when limit
\* other points can outrank them all.
first_preference_hits(points, user) ==
    LET visible == SelectSeq(points, LAMBDA r : r.user_id = user /\ ~r.delete_flag)
        prefs   == {visible[i].id : i \in {j \in DOMAIN visible : visible[j].type = "preference"}}
        others  == Cardinality({j \in DOMAIN visible : visible[j].type # "preference"})
    IN  prefs \cup (IF prefs = {} \/ others >= MEMORY_GET_LIMIT THEN {NoHit} ELSE {})

PointById(points, id) == points[CHOOSE i \in DOMAIN points : points[i].id = id]

\* ts < now - timedelta(days=ttl)
is_expired(r, t) == r.last_updated < t - r.ttl_days

\* client.scroll(scroll_filter=flt, limit=1000): the first limit matching
\* points in id order.
scroll(points, user, limit) ==
    LET matching == SelectSeq(points, LAMBDA r : MatchesUser(r, user))
    IN  SubSeq(matching, 1, Min(limit, Len(matching)))

\* The ids memory_decay_cleanup collects in to_delete.
decay_to_delete(points, user, t) ==
    LET scanned == scroll(points, user, SCROLL_LIMIT)
    IN  {scanned[i].id : i \in {j \in DOMAIN scanned : is_expired(scanned[j], t)}}

\* client.delete with the filter also asking for type == preference.
delete_by_user_preferences_only(points, user) ==
    SelectSeq(points, LAMBDA r : ~(r.user_id = user /\ r.type = "preference"))

\* client.delete(points_selector=FilterSelector(user_id == user))
delete_by_user(points, user) ==
    SelectSeq(points, LAMBDA r : r.user_id # user)

\* The points of a user, in id order, and the preference points among them.
UserPoints(points, user) == SelectSeq(points, LAMBDA r : r.user_id = user)
PrefPoints(points, user) ==
    Range(SelectSeq(points, LAMBDA r : r.user_id = user /\ r.type = "preference"))

\* The streaks after an operation other than reinforce: a user whose points
\* changed is no longer in a run of reinforce calls.
StreakAfter(points) ==
    [u \in Users |-> IF UserPoints(points, u) = UserPoints(store, u)
                      THEN streak[u] ELSE NoStreak]

\* reinforce_preference(user_id, channel) with the lookup's answer (hit), the
\* id a new point would get and the clock as parameters.  No preference hit:
\* a new preference point of weight 1.  Preference hit: weight + 1, the
\* channel overwritten, last_updated refreshed, upserted under the hit's id.
reinforce_preference(points, user, channel, hit, new_id, t) ==
    IF hit = NoHit
    THEN memory_upsert(points,
            Point(new_id, user, "preference", channel, 1, PREF_TTL_DAYS, t))
    ELSE LET pref == PointById(points, hit)
         IN  memory_upsert(points,
                [pref EXCEPT !.pref_channel = channel,
                             !.pref_weight = pref.pref_weight + 1,
                             !.last_updated = t])

\* A reinforce call that finds no preference hit.
ReinforceNew ==
    \E u \in Users, c \in MemChannels :
        /\ NoHit \in first_preference_hits(store, u)
        /\ next_id <= MaxNew
        /\ store' = reinforce_preference(store, u, c, NoHit, next_id, now)
        /\ next_id' = next_id + 1
        /\ memop' = [op |-> "reinforce", user |-> u, channel |-> c, hit |-> NoHit]
        /\ streak' = [streak EXCEPT ![u] =
                        IF PrefPoints(store, u) = {} THEN [n |-> 1, channel |-> c]
                        ELSE IF streak[u].n > 0 THEN [n |-> streak[u].n + 1, channel |-> c]
                        ELSE NoStreak]
        /\ UNCHANGED <<now, chan, fuse, cacheVars, agentVars>>

\* A reinforce call that finds a preference hit.
ReinforceExisting ==
    \E u \in Users, c \in MemChannels :
      \E hit \in first_preference_hits(store, u) \ {NoHit} :
            /\ PointById(store, hit).pref_weight + 1 <= MaxWeight
            /\ store' = reinforce_preference(store, u, c, hit, next_id, now)
            /\ memop' = [op |-> "reinforce", user |-> u, channel |-> c, hit |-> hit]
            /\ streak' = [streak EXCEPT ![u] =
                            IF streak[u].n > 0 THEN [n |-> streak[u].n + 1, channel |-> c]
                            ELSE NoStreak]
            /\ UNCHANGED <<now, next_id, chan, fuse, cacheVars, agentVars>>

\* POST /v1/complaints/feedback: a history point with ttl 365.
Feedback ==
    \E u \in Users :
        /\ next_id <= MaxNew
        /\ store' = memory_upsert(store,
                        Point(next_id, u, "history", None, 0, HISTORY_TTL_DAYS, now))
        /\ next_id' = next_id + 1
        /\ memop' = [op |-> "feedback", user |-> u]
        /\ streak' = [streak EXCEPT ![u] = NoStreak]
        /\ UNCHANGED <<now, chan, fuse, cacheVars, agentVars>>

\* client.delete(points_selector=PointIdsList(points=ids))
delete_points(points, ids) == SelectSeq(points, LAMBDA r : r.id \notin ids)

\* memory_decay_cleanup(user_id, now): user None scans every user's points.
\* (to_delete and kept are bound by \E so that each is computed once.)
DecayCleanup ==
    \E user \in Users \cup {None} :
      \E to_delete \in {decay_to_delete(store, user, now)} :
        \E kept \in {IF to_delete = {} THEN store ELSE delete_points(store, to_delete)} :
            /\ store' = kept
            /\ memop' = [op |-> "decay", user |-> user, returned |-> Cardinality(to_delete)]
            /\ streak' = StreakAfter(kept)
            /\ UNCHANGED <<now, next_id, chan, fuse, cacheVars, agentVars>>

\* POST /v1/memory/delete: memory_delete_user(user_id).
DeleteUser ==
    \E u \in Users :
      \E kept \in {delete_by_user(store, u)} :
            /\ store' = kept
            /\ memop' = [op |-> "delete_user", user |-> u,
                         removed |-> Len(store) - Len(kept)]
            /\ streak' = StreakAfter(kept)
            /\ UNCHANGED <<now, next_id, chan, fuse, cacheVars, agentVars>>

\* Time passes.
Tick ==
    \E d \in TickDays :
        /\ now + d <= MaxNow
        /\ now' = now + d
        /\ memop' = [op |-> "tick"]
        /\ UNCHANGED <<store, next_id, streak, chan, fuse, cacheVars, agentVars>>

InitMem ==
    /\ AgentIdle
    /\ chan = Idle /\ fuse = Idle
    /\ live = 0 /\ cache = NoEntry /\ look = Idle
    /\ MemIdle

NextMem ==
    ReinforceNew \/ ReinforceExisting \/ Feedback \/ DecayCleanup \/ DeleteUser \/ Tick

SpecMem == InitMem /\ [][NextMem]_vars

\* A store that already holds h history points of user u1, written at day 0
\* by h earlier feedback calls (ids older than every id issued later).
HistoryBacklog(h) ==
    [i \in 1..h |-> Point(i - h - 1, "u1", "history", None, 0, HISTORY_TTL_DAYS, 0)]

\* The store after as many feedback calls as a preference lookup returns hits.
InitMemBacklog ==
    /\ AgentIdle
    /\ chan = Idle /\ fuse = Idle
    /\ live = 0 /\ cache = NoEntry /\ look = Idle
    /\ now = 0 /\ next_id = 1 /\ memop = Idle
    /\ streak = [u \in Users |-> NoStreak]
    /\ store = HistoryBacklog(MEMORY_GET_LIMIT)

SpecMemBacklog == InitMemBacklog /\ [][NextMem]_vars

\* The store after one feedback call more than a cleanup scroll returns
\* points; the requests that follow are feedback, cleanup and erasure.
InitDecayBacklog ==
    /\ AgentIdle
    /\ chan = Idle /\ fuse = Idle
    /\ live = 0 /\ cache = NoEntry /\ look = Idle
    /\ now = 0 /\ next_id = 1 /\ memop = Idle
    /\ streak = [u \in Users |-> NoStreak]
    /\ store = HistoryBacklog(SCROLL_LIMIT + 1)

NextDecayBacklog == Feedback \/ DecayCleanup \/ DeleteUser \/ Tick

SpecDecayBacklog == InitDecayBacklog /\ [][NextDecayBacklog]_vars

(***************************************************************************)
(* Concurrent Memory Store requests.  The store is a Qdrant collection     *)
(* shared by every process and thread that serves requests; a reinforce    *)
(* call is two requests to it, the preference lookup and the upsert, and   *)
(* other requests can be served between the two.                            *)
(***************************************************************************)
\* reinforce_preference up to the end of its loop over the hits: the hit's
\* id and payload are kept in the caller.
ReinforceLookup ==
    \E t \in Threads, u \in Users, c \in MemChannels :
      \E hit \in first_preference_hits(store, u) :
        /\ threads[t].pc = "idle"
        /\ threads' = [threads EXCEPT ![t] =
              [pc |-> "upsert", user |-> u, channel |-> c, hit |-> hit,
               pref |-> IF hit = NoHit THEN <<>> ELSE <<PointById(store, hit)>>]]
        /\ UNCHANGED <<memVars, live, cache, look, chan, fuse, app, sessions,
                       objects, agent, tickets, renders, llm_calls, esc, found, rr>>

\* reinforce_preference from there: memory_upsert of a new point of weight
\* 1, or client.upsert under the hit's id of the payload read, with the
\* channel, the weight plus one and the time overwritten.
ReinforceUpsert ==
    \E t \in Threads :
        /\ threads[t].pc = "upsert"
        /\ threads[t].hit = NoHit => next_id <= MaxNew
        /\ threads[t].hit # NoHit => threads[t].pref[1].pref_weight + 1 <= MaxWeight
        /\ store' = memory_upsert(store,
              IF threads[t].hit = NoHit
              THEN Point(next_id, threads[t].user, "preference",
                         threads[t].channel, 1, PREF_TTL_DAYS, now)
              ELSE [threads[t].pref[1] EXCEPT
                        !.pref_channel = threads[t].channel,
                        !.pref_weight = threads[t].pref[1].pref_weight + 1,
                        !.last_updated = now])
        /\ next_id' = IF threads[t].hit = NoHit THEN next_id + 1 ELSE next_id
        /\ memop' = [op |-> "reinforce", user |-> threads[t].user,
                     channel |-> threads[t].channel, hit |-> threads[t].hit]
        /\ threads' = [threads EXCEPT ![t] = ThreadIdle]
        /\ UNCHANGED <<now, streak, live, cache, look, chan, fuse, app, sessions,
                       objects, agent, tickets, renders, llm_calls, esc, found, rr>>

InitMemThreads ==
    /\ chan = Idle /\ fuse = Idle
    /\ live = 0 /\ cache = NoEntry /\ look = Idle
    /\ MemIdle
    /\ agent = Idle /\ tickets = <<>> /\ renders = 0 /\ llm_calls = 0
    /\ esc = Idle /\ found = Idle /\ rr = Idle
    /\ app = Idle /\ sessions = 0 /\ objects = 0
    /\ threads = [t \in Threads |-> ThreadIdle]

NextMemThreads == ReinforceLookup \/ ReinforceUpsert \/ DeleteUser

SpecMemThreads == InitMemThreads /\ [][NextMemThreads]_vars

(***************************************************************************)
(* memory_decay_cleanup on points as the collection can hold them: the     *)
(* payload fields ttl_days and last_updated can be missing, can hold text  *)
(* that does not parse, or can hold a value that parses (an integer        *)
(* number of days, a timestamp, here in days).                             *)
(***************************************************************************)
Missing == [kind |-> "missing"]
Unparseable == [kind |-> "text"]
Parsed(n) == [kind |-> "value", val |-> n]

DECAY_DEFAULT_TTL == 180
\* datetime.min (year 1), in days relative to day 0 of the clock, and the
\* largest number of days timedelta accepts.
DATETIME_MIN_DAY == 0 - 730000
TIMEDELTA_MAX_DAYS == 999999999
HugeTtl == 1000000

StoredTtls == {Missing, Unparseable, Parsed(PREF_TTL_DAYS),
               Parsed(HISTORY_TTL_DAYS), Parsed(HugeTtl)}
StoredStamps == {Missing, Unparseable, Parsed(0), Parsed(200)}
StoredPoint(id, user, ttl, at) ==
    [id |-> id, user_id |-> user, ttl_days |-> ttl, last_updated |-> at]

\* int(p.payload.get("ttl_days", "180")), 180 when int() raises.
ttl_of(p) ==
    IF p.ttl_days.kind = "value" THEN p.ttl_days.val ELSE DECAY_DEFAULT_TTL

\* The point is skipped: last_updated is missing or fromisoformat raises.
skipped(p) == p.last_updated.kind # "value"

\* now - timedelta(days=ttl) raises OverflowError: the days are more than
\* timedelta accepts, or the date is before datetime.min.
deadline_raises(p, t) ==
    \/ ttl_of(p) > TIMEDELTA_MAX_DAYS
    \/ t - ttl_of(p) < DATETIME_MIN_DAY

\* memory_decay_cleanup(user_id, now) on stored points: whether the loop
\* raises, and the ids it collects in to_delete when it does not.
decay_cleanup(points, user, t) ==
    LET scanned == scroll(points, user, SCROLL_LIMIT)
        read    == {i \in DOMAIN scanned : ~skipped(scanned[i])}
    IN  IF \E i \in read : deadline_raises(scanned[i], t)
        THEN [raised |-> TRUE, to_delete |-> {}]
        ELSE [raised |-> FALSE,
              to_delete |-> {scanned[i].id : i \in
                  {j \in read : scanned[j].last_updated.val < t - ttl_of(scanned[j])}}]

DecayCleanupStored ==
    /\ memop = Idle
    /\ \E user \in Users \cup {None} :
       \E d \in {decay_cleanup(store, user, now)} :
          /\ store' = IF d.to_delete = {} THEN store
                      ELSE delete_points(store, d.to_delete)
          /\ memop' = [op |-> "decay", user |-> user, raised |-> d.raised,
                       returned |-> Cardinality(d.to_delete)]
          /\ UNCHANGED <<now, next_id, streak, chan, fuse, cacheVars, agentVars>>

InitDecayStored ==
    /\ AgentIdle
    /\ chan = Idle /\ fuse = Idle
    /\ live = 0 /\ cache = NoEntry /\ look = Idle
    /\ now \in {200, MaxNow} /\ next_id = 3 /\ memop = Idle
    /\ streak = [u \in Users |-> NoStreak]
    /\ \E ttl1 \in StoredTtls, at1 \in StoredStamps,
          ttl2 \in StoredTtls, at2 \in StoredStamps, u2 \in Users :
          store = <<StoredPoint(1, "u1", ttl1, at1), StoredPoint(2, u2, ttl2, at2)>>

NextDecayStored == DecayCleanupStored

SpecDecayStored == InitDecayStored /\ [][NextDecayStored]_vars

(***************************************************************************)
(* Hybrid search (core/hybrid.py, HybridRetriever.search) for one          *)
(* (collection, filter) key.  The collection holds the first live          *)
(* documents of CollectionDocs; an index built from n documents holds the  *)
(* first n.                                                                 *)
(***************************************************************************)
CollectionDocs == <<"d1", "d2", "d3">>
DocsOf(n) == {CollectionDocs[i] : i \in 1..Min(n, Len(CollectionDocs))}

\* The ranked lists a search over the documents S can return for topk: the
\* ranking depends on the query, so any order of any Min(topk, |S|) of them.
RankedOver(S, topk) ==
    {s \in RankedIdLists : Range(s) \subseteq S /\ Len(s) = Min(topk, Cardinality(S))}

\* Another writer upserts a point that matches the filter.
IngestDoc ==
    /\ live < Len(CollectionDocs)
    /\ live' = live + 1
    /\ found' = Idle
    /\ UNCHANGED <<cache, look, chan, fuse, memVars, appVars, agent, tickets, renders,
                   llm_calls, esc, rr>>

\* Another writer deletes a point that matches the filter.
RemoveDoc ==
    /\ live > 0
    /\ live' = live - 1
    /\ found' = Idle
    /\ UNCHANGED <<cache, look, chan, fuse, memVars, appVars, agent, tickets, renders,
                   llm_calls, esc, rr>>

\* _get_or_build raises when a call it does not guard raises: the scroll of
\* build_bm25_from_qdrant (entry missing, or stale), or the fallback scroll
\* of _count after client.count raised.
get_or_build_raises(entry, n, count_ok, scroll_ok) ==
    IF ~entry.present THEN ~scroll_ok
    ELSE IF ~count_ok /\ ~scroll_ok THEN TRUE
    ELSE is_stale(count_points(n, count_ok), entry.count) /\ ~scroll_ok

\* The cache entry _get_or_build leaves when nothing raises.
get_or_build(entry, n, count_ok) ==
    IF ~entry.present THEN build_bm25_from_qdrant(n)
    ELSE IF is_stale(count_points(n, count_ok), entry.count)
         THEN build_bm25_from_qdrant(n)
         ELSE entry

\* HybridRetriever.search(collection, query, flt, topk): the dense search,
\* _get_or_build, the sparse search on the cached index and rrf_fuse of the
\* two lists.  _get_or_build returns current["idx"], a BM25Index object
\* also when the index holds no document, so the test bm25 is None is never
\* true; BM25Index.search answers [] when the index holds no document.
Search ==
    \E topk \in 1..MaxTopk, count_ok \in BOOLEAN, scroll_ok \in BOOLEAN :
      \E dense \in RankedOver(DocsOf(live), topk) :
        IF get_or_build_raises(cache, live, count_ok, scroll_ok)
        THEN /\ found' = [op |-> "search", topk |-> topk, count_ok |-> count_ok,
                          scroll_ok |-> scroll_ok, raised |-> TRUE,
                          dense |-> HitLists(<<dense>>)[1]]
             /\ UNCHANGED <<live, cache, look, chan, fuse, memVars, appVars, agent, tickets,
                            renders, llm_calls, esc, rr>>
        ELSE \E entry \in {get_or_build(cache, live, count_ok)} :
             \E sparse \in RankedOver(DocsOf(entry.count), topk) :
                /\ cache' = entry
                /\ found' = [op |-> "search", topk |-> topk, count_ok |-> count_ok,
                             scroll_ok |-> scroll_ok, raised |-> FALSE,
                             dense |-> HitLists(<<dense>>)[1],
                             indexed |-> entry.count,
                             out |-> rrf_fuse(HitLists(<<dense, sparse>>), RRF_K, topk)]
                /\ UNCHANGED <<live, look, chan, fuse, memVars, appVars, agent, tickets,
                               renders, llm_calls, esc, rr>>

NextSearch == IngestDoc \/ RemoveDoc \/ Search

SpecSearch == InitCache /\ [][NextSearch]_vars

(***************************************************************************)
(* Concurrent lookups of one (collection, filter) key.  One                *)
(* HybridRetriever is shared by the threads that serve requests (the       *)
(* Streamlit client caches one CivicFixAgent for all its sessions); the    *)
(* class takes no lock.  A lookup is three steps: it reads the entry and   *)
(* the live count, it scrolls the collection and builds the index, and it  *)
(* assigns the new entry to the key.                                       *)
(***************************************************************************)
\* _get_or_build up to its decision: no entry, or a stale one, starts
\* build_bm25_from_qdrant; a fresh entry is returned as it is.
LookupBegin ==
    \E t \in Threads, count_ok \in BOOLEAN :
        /\ threads[t].pc = "idle"
        /\ threads' = [threads EXCEPT ![t] =
              IF ~cache.present
                 \/ is_stale(count_points(live, count_ok), cache.count)
              THEN [pc |-> "scroll", saw |-> cache]
              ELSE [pc |-> "idle", saw |-> cache]]
        /\ UNCHANGED <<live, cache, look, chan, fuse, memVars, app, sessions,
                       objects, agent, tickets, renders, llm_calls, esc, found, rr>>

\* build_bm25_from_qdrant: the scroll loop and BM25Index.build on the
\* documents fetched, in an index of its own.
LookupScroll ==
    \E t \in Threads :
        /\ threads[t].pc = "scroll"
        /\ threads' = [threads EXCEPT ![t] =
              [pc |-> "store", saw |-> threads[t].saw,
               built |-> build_bm25_from_qdrant(live)]]
        /\ UNCHANGED <<live, cache, look, chan, fuse, memVars, app, sessions,
                       objects, agent, tickets, renders, llm_calls, esc, found, rr>>

\* self._cache[k] = {...}: one assignment of the finished entry.
LookupStore ==
    \E t \in Threads :
        /\ threads[t].pc = "store"
        /\ cache' = threads[t].built
        /\ threads' = [threads EXCEPT ![t] = [pc |-> "idle", saw |-> cache']]
        /\ UNCHANGED <<live, look, chan, fuse, memVars, app, sessions,
                       objects, agent, tickets, renders, llm_calls, esc, found, rr>>

InitCacheThreads ==
    /\ chan = Idle /\ fuse = Idle
    /\ live = 0 /\ cache = NoEntry /\ look = Idle
    /\ MemIdle
    /\ agent = Idle /\ tickets = <<>> /\ renders = 0 /\ llm_calls = 0
    /\ esc = Idle /\ found = Idle /\ rr = Idle
    /\ app = Idle /\ sessions = 0 /\ objects = 0
    /\ threads = [t \in Threads |-> ThreadIdle]

NextCacheThreads ==
    IngestDoc \/ RemoveDoc \/ LookupBegin \/ LookupScroll \/ LookupStore

SpecCacheThreads == InitCacheThreads /\ [][NextCacheThreads]_vars

(***************************************************************************)
(* Reranker (core/rerank.py).  A candidate is its id and the score the     *)
(* search gave it; the cross-encoder's prediction for the candidates is a  *)
(* parameter.                                                               *)
(***************************************************************************)
MaxDocsReranked == 3
UpstreamScores == {10, 20}
PredictedScores == {0 - 1, 0, 1}
Rerankers == {"Reranker", "CrossEncoderReranker"}

\* d["rerank_score"] = float(s)
annotate(d, s) == [id |-> d.id, score |-> d.score, rerank_score |-> s]

\* CrossEncoderReranker.rerank without the sort.
rerank_unsorted(reranker, docs, predicted) ==
    IF reranker = "Reranker" \/ docs = <<>> THEN docs
    ELSE [i \in DOMAIN docs |-> annotate(docs[i], predicted[i])]

\* Reranker.rerank returns docs; CrossEncoderReranker.rerank returns docs
\* when empty, else annotates each with its predicted score and sorts by
\* rerank_score, reverse=True (a stable sort).
rerank(reranker, docs, predicted) ==
    IF reranker = "Reranker" \/ docs = <<>> THEN docs
    ELSE LET scored == StableSortDesc(
                          [i \in DOMAIN docs |->
                              <<annotate(docs[i], predicted[i]), predicted[i]>>])
         IN  [i \in DOMAIN scored |-> scored[i][1]]

InitRerank ==
    /\ chan = Idle /\ fuse = Idle
    /\ live = 0 /\ cache = NoEntry /\ look = Idle
    /\ MemIdle
    /\ agent = Idle /\ tickets = <<>> /\ renders = 0 /\ llm_calls = 0
    /\ esc = Idle /\ found = Idle
    /\ AppIdle
    /\ \E n \in 0..MaxDocsReranked, reranker \in Rerankers :
        \E upstream \in [1..n -> UpstreamScores],
           predicted \in [1..n -> PredictedScores] :
          rr = [op |-> "call", reranker |-> reranker,
                docs |-> [i \in 1..n |-> [id |-> i, score |-> upstream[i]]],
                predicted |-> predicted]

Rerank ==
    /\ rr.op = "call"
    /\ rr' = [op |-> "done", reranker |-> rr.reranker, docs |-> rr.docs,
              predicted |-> rr.predicted,
              out |-> rerank(rr.reranker, rr.docs, rr.predicted)]
    /\ UNCHANGED <<chan, fuse, cacheVars, memVars, appVars, agent, tickets, renders,
                   llm_calls, esc, found>>

NextRerank == Rerank

SpecRerank == InitRerank /\ [][NextRerank]_vars

(***************************************************************************)
(* Decision orchestrator (core/agent_v2.py): CivicFixAgent.assist_new.     *)
(* A Python string is the sequence of its characters, over a two-letter    *)
(* alphabet: the space and a letter.                                        *)
(***************************************************************************)
Chars == {" ", "x"}
MaxStr == 1
Strs == SeqsUpTo(Chars, MaxStr)

\* str.strip(): leading and trailing whitespace removed.
RECURSIVE lstrip(_)
lstrip(s) == IF s # <<>> /\ Head(s) = " " THEN lstrip(Tail(s)) ELSE s
RECURSIVE rstrip(_)
rstrip(s) ==
    IF s # <<>> /\ s[Len(s)] = " " THEN rstrip(SubSeq(s, 1, Len(s) - 1)) ELSE s
strip(s) == rstrip(lstrip(s))

\* Names a knowledge-base entry can list in required_fields: names of the
\* seeded entries and one that assist_new provides no value for.
FieldNames == {"landmark", "photo", "pole_number_optional", "description"}
\* f.endswith("_optional")
endswith_optional(f) == f \in {"pole_number_optional", "sender_name_optional"}

\* The required_fields lists of the seeded knowledge-base entries, and that
\* of an entry asking for the location only.
SeedRequiredFields ==
    { <<"location">>,
      <<"location", "landmark", "photo", "date_time">>,
      <<"location", "landmark", "photo", "date_time", "pole_number_optional">>,
      <<"location", "landmark", "photo", "date_time", "days_missed">> }
MaxRequired == 1
RequiredFieldLists == SeqsUpTo(FieldNames, MaxRequired) \cup SeedRequiredFields

\* _missing_fields with whitespace-only values counted as provided.
RECURSIVE missing_fields_empty_only(_, _)
missing_fields_empty_only(required, given) ==
    IF required = <<>> THEN <<>>
    ELSE LET f    == Head(required)
             rest == missing_fields_empty_only(Tail(required), given)
         IN  IF endswith_optional(f) THEN rest
             ELSE IF f \notin DOMAIN given THEN <<f>> \o rest
             ELSE IF given[f] = <<>> THEN <<f>> \o rest
             ELSE rest

\* _missing_fields(required, provided).  provided.get(f) is None when the
\* dict has no key f; every value of the dict is a string.
RECURSIVE missing_fields(_, _)
missing_fields(required, given) ==
    IF required = <<>> THEN <<>>
    ELSE LET f    == Head(required)
             rest == missing_fields(Tail(required), given)
         IN  IF endswith_optional(f) THEN rest
             ELSE IF f \notin DOMAIN given THEN <<f>> \o rest
             ELSE IF strip(given[f]) = <<>> THEN <<f>> \o rest
             ELSE rest

\* The request fields this model holds fixed (each a non-blank string).
CITY == <<"x">>
WARD_ID == <<"x">>
DATE_TIME == <<"x">>
TEXT == <<"x">>

\* The provided dict of assist_new.  location is f"Ward {ward_id}, {city}",
\* photo is "yes" or "", days_missed is "".
provided(city, ward_id, landmark, date_time, text, has_photo) ==
    [city |-> city, ward_id |-> ward_id, landmark |-> landmark,
     date_time |-> date_time, text |-> text,
     location |-> <<"x", " ">> \o ward_id \o <<"x", " ">> \o city,
     photo |-> IF has_photo THEN <<"x", "x", "x">> ELSE <<>>,
     days_missed |-> <<>>]

\* What the knowledge-base search and rerank answer: no hit, or the top hit,
\* its payload fields and its scores.  A category or department of None and
\* an sla_days of 0 stand for a payload without that key (or with a falsy
\* value).  Relevance scores are in hundredths: 0.35 is 35.  score is the
\* score of the search (the dense or the fused one); rerank_score is <<>>
\* when the no-op reranker is active (the hit has no such key) and <<s>>
\* when the cross-encoder scored the hit s.
NoKb == [hit |-> FALSE]
KbProfiles ==
    { [category |-> "Pothole", department |-> "Municipal Roads",
       channel_type |-> <<"portal", "helpline">>, sla_days |-> 7],
      [category |-> "Streetlight", department |-> "Electrical",
       channel_type |-> <<"email">>, sla_days |-> 5],
      [category |-> None, department |-> None,
       channel_type |-> <<>>, sla_days |-> 0] }
KbHit(p, rf, score, rerank_score) ==
    [hit |-> TRUE, category |-> p.category, department |-> p.department,
     channel_type |-> p.channel_type, sla_days |-> p.sla_days,
     required_fields |-> rf, score |-> score, rerank_score |-> rerank_score]
\* The top hits of the requests that exercise the slot-filling gate.
KbTops ==
    {NoKb} \cup
    {KbHit(p, rf, 50, <<30>>) : p \in KbProfiles, rf \in RequiredFieldLists}

\* kb_payload.get(key) and kb_payload.get(key, default) of assist_new.
kb_category(kb_top) == IF kb_top.hit THEN kb_top.category ELSE None
kb_department(kb_top) == IF kb_top.hit THEN kb_top.department ELSE None
kb_channels(kb_top) == IF kb_top.hit THEN kb_top.channel_type ELSE <<>>
kb_required_fields(kb_top) == IF kb_top.hit THEN kb_top.required_fields ELSE <<>>
kb_sla_days(kb_top) == IF kb_top.hit THEN kb_top.sla_days ELSE 0

\* issue_photo and what the image lookups answer for it: the category of
\* the top similar case (inferred; None when there is no hit) and the label
\* of the top image hint (hint; None when there is none).
NoPhoto == [present |-> FALSE, inferred |-> None, hint |-> None]
Photos ==
    { NoPhoto,
      [present |-> TRUE, inferred |-> None, hint |-> None],
      [present |-> TRUE, inferred |-> None, hint |-> "Streetlight"],
      [present |-> TRUE, inferred |-> "Garbage", hint |-> "Streetlight"] }

\* a or b, for values that are None, "" or a non-empty string.
Or(a, b) == IF a \in {None, ""} THEN b ELSE a

DEFAULT_SLA_DAYS == 7
\* config.ENABLE_LLM, by default.
ENABLE_LLM == TRUE
PreferredChannels == {None, "portal"}
\* What infer_urgency(text) answers for the texts of this model.
AgentUrgencies == {"low", "high"}
ForceLlm == {None, "true", "false"}

\* What a lookup other than the knowledge-base search can answer: no hit, a
\* hit, or an exception (the index is unreachable).
LookupOutcomes == {"none", "hit", "error"}
\* get_channel_status raising, among the values of portal_status.
StatusError == "error"

\* sla_days with the payload value ignored.
sla_days_always_default(kb_top) == DEFAULT_SLA_DAYS

\* int(kb_payload.get("sla_days", 7)) if kb_payload.get("sla_days") else 7
sla_days_of(kb_top) ==
    IF kb_sla_days(kb_top) # 0 THEN kb_sla_days(kb_top) ELSE DEFAULT_SLA_DAYS

\* escalation_steps with the trigger days not capped by the days waited.
escalation_steps_uncapped(sla_days, waited_days) ==
    <<[day |-> 0], [day |-> 1], [day |-> sla_days, sla_days |-> sla_days],
      [day |-> sla_days + 2], [day |-> sla_days + 5]>>

\* escalation_steps(sla_days, waited_days): the trigger day of each step,
\* and the SLA the third step names; waited_days is <<>> for None and <<n>>
\* for the number n.
escalation_steps(sla_days, waited_days) ==
    LET waited == IF waited_days = <<>> THEN sla_days ELSE waited_days[1]
    IN  <<[day |-> 0],
          [day |-> Min(1, waited)],
          [day |-> Min(sla_days, waited), sla_days |-> sla_days],
          [day |-> Min(sla_days + 2, waited + 2)],
          [day |-> Min(sla_days + 5, waited + 5)]>>

HIGH_SCORE == 35
MEDIUM_SCORE == 25

\* confidence_from_score with no score read as a medium one.
confidence_from_score_none_medium(score) ==
    IF score = <<>> THEN "medium"
    ELSE IF score[1] >= HIGH_SCORE THEN "high"
    ELSE IF score[1] >= MEDIUM_SCORE THEN "medium"
    ELSE "low"

\* confidence_from_score(score): score is <<>> for None, <<s>> for s.
confidence_from_score(score) ==
    IF score = <<>> THEN "low"
    ELSE IF score[1] >= HIGH_SCORE THEN "high"
    ELSE IF score[1] >= MEDIUM_SCORE THEN "medium"
    ELSE "low"

\* create_ticket with the row left without a status.
create_ticket_no_status(rows, user, category, department, channel, urgency) ==
    Append(rows, [ticket_id |-> Len(rows) + 1, user_id |-> user,
                  category |-> category, department |-> department,
                  channel |-> channel, status |-> None,
                  urgency |-> urgency])

\* create_ticket: a new row with a fresh ticket id and status submitted.
create_ticket(rows, user, category, department, channel, urgency) ==
    Append(rows, [ticket_id |-> Len(rows) + 1, user_id |-> user,
                  category |-> category, department |-> department,
                  channel |-> channel, status |-> "submitted",
                  urgency |-> urgency])

NoTicket == 0

\* _questions_for: a question of the table for a known field, a generic one
\* for any other.
questions_for(fields) ==
    [i \in DOMAIN fields |->
        IF fields[i] \in {"location", "landmark", "date_time", "days_missed",
                          "photo", "pole_number_optional"}
        THEN <<"question", fields[i]>> ELSE <<"please provide", fields[i]>>]

\* What assist_new works out before the slot-filling gate (lines 107-158),
\* given the request r and the first preference hit of the memory lookup.
inferred(r, hit) ==
    LET mem_pref == IF hit = NoHit THEN r.preferred_channel
                    ELSE Or(r.preferred_channel, PointById(store, hit).pref_channel)
        category == Or(kb_category(r.kb_top), Or(r.photo.inferred,
                       IF r.photo.hint # None THEN r.photo.hint ELSE "General"))
        rec      == recommend_channel(kb_channels(r.kb_top), r.portal_status,
                                      r.urgency, mem_pref)
        required_fields == kb_required_fields(r.kb_top)
    IN  [mem_pref   |-> mem_pref,
         category   |-> category,
         department |-> Or(kb_department(r.kb_top), "Sanitation"),
         best       |-> Or(rec.best, "helpline"),
         backup     |-> Or(rec.backup, "email"),
         required_fields |-> required_fields,
         missing    |-> missing_fields(required_fields,
                            provided(CITY, WARD_ID, r.landmark, DATE_TIME, TEXT,
                                     r.photo.present))]

\* The lookup whose exception ends assist_new, None when none raises: the
\* directory search (line 136), the similar-case search (line 140) and the
\* status lookup inside recommend_channel (line 143) are called in this
\* order, none inside a try.
first_error(r) ==
    IF r.dir = "error" THEN "jurisdiction_directory"
    ELSE IF r.cases = "error" THEN "case_library"
    ELSE IF r.portal_status = StatusError THEN "channel_status"
    ELSE None

\* if missing and not auto_submit: return the information request.
stops_at_gate(missing, auto_submit) == missing # <<>> /\ ~auto_submit

\* The Memory Store after assist_new with reinforce_preference called ahead
\* of the slot-filling gate.
store_after_reinforce_before_gate(points, stopped, user, best, hit, new_id, t) ==
    reinforce_preference(points, user, best, hit, new_id, t)

\* The Memory Store after assist_new: reinforce_preference(user_id, best)
\* is called on the path that passed the gate.
store_after(points, stopped, user, best, hit, new_id, t) ==
    IF stopped THEN points
    ELSE reinforce_preference(points, user, best, hit, new_id, t)

\* The civic_kb entry of the evidence list: its score is
\* kb_top.get("rerank_score", kb_top.get("score") or 0.0).
kb_evidence(kb_top) ==
    IF kb_top.hit
    THEN <<[collection |-> "civic_kb",
            score |-> IF kb_top.rerank_score # <<>> THEN kb_top.rerank_score[1]
                      ELSE kb_top.score]>>
    ELSE <<>>

\* The evidence list of a final decision: the top hit of the knowledge
\* base, of the directory and of the image search, each with its score.
evidence(kb_top, dir_hit, image_hit) ==
    kb_evidence(kb_top)
    \o (IF dir_hit THEN <<[collection |-> "jurisdiction_directory", score |-> 80]>>
        ELSE <<>>)
    \o (IF image_hit THEN <<[collection |-> "case_library(image)", score |-> 60]>>
        ELSE <<>>)

\* confidence_from_score(kb_top.get("rerank_score") if kb_top else None)
confidence(kb_top) ==
    confidence_from_score(IF kb_top.hit THEN kb_top.rerank_score ELSE <<>>)

\* assist_new, from its first line to its return or to the exception that
\* ends it.  hit is the first preference hit of its own memory lookup, hit2
\* that of the lookup inside reinforce_preference; llm_up says whether the
\* language model answers.
AssistNew ==
    /\ agent.op = "call"
    /\ \E hit \in first_preference_hits(store, agent.user_id),
          hit2 \in first_preference_hits(store, agent.user_id),
          llm_up \in (IF Or(agent.force_llm, "true") = "true" THEN BOOLEAN ELSE {TRUE}) :
      \E failed \in {first_error(agent)} :
      \E d \in {inferred(agent, hit)} :
      \E stopped \in {failed = None /\ stops_at_gate(d.missing, agent.auto_submit)} :
      \E final \in {failed = None /\ ~stopped} :
      \E rows \in {IF final /\ agent.auto_submit
                   THEN create_ticket(tickets, agent.user_id, d.category,
                                      d.department, d.best, agent.urgency)
                   ELSE tickets} :
        LET r       == agent
            use_llm_final == IF r.force_llm = None THEN ENABLE_LLM
                             ELSE r.force_llm = "true"
            sla_days == sla_days_of(r.kb_top)
            out     == IF failed # None
                       THEN [raised |-> failed]
                       ELSE IF stopped
                       THEN [need_more_info |-> TRUE,
                             missing_fields |-> d.missing,
                             questions      |-> questions_for(d.missing),
                             inferred       |-> [category |-> d.category,
                                                 department |-> d.department,
                                                 urgency |-> r.urgency],
                             evidence       |-> kb_evidence(r.kb_top),
                             confidence     |-> confidence(r.kb_top)]
                       ELSE [need_more_info |-> FALSE,
                             recommended_action |->
                                [department |-> d.department,
                                 category |-> d.category,
                                 best_channel |-> d.best,
                                 backup_channel |-> d.backup],
                             checklist_required_fields |-> d.required_fields,
                             sla_days |-> sla_days,
                             escalation_steps |-> escalation_steps(sla_days, <<>>),
                             tips_from_similar_cases |->
                                IF r.cases = "hit" THEN <<"tip">> ELSE <<>>,
                             evidence |-> evidence(r.kb_top, r.dir = "hit",
                                                   r.photo.inferred # None),
                             confidence |-> confidence(r.kb_top),
                             llm_markdown |-> IF ~use_llm_final THEN None
                                              ELSE IF llm_up THEN "markdown" ELSE "",
                             ticket_id |-> IF r.auto_submit THEN Len(rows)
                                           ELSE NoTicket,
                             submission_status |-> IF r.auto_submit
                                                   THEN "submitted" ELSE None]
        IN  /\ agent' = [r EXCEPT !.op = "done"] @@ [out |-> out]
            /\ store' = IF failed # None THEN store
                        ELSE store_after(store, stopped, r.user_id, d.best, hit2,
                                         next_id, now)
            /\ next_id' = IF final /\ hit2 = NoHit THEN next_id + 1 ELSE next_id
            /\ memop' = IF ~final THEN memop
                        ELSE [op |-> "reinforce", user |-> r.user_id,
                              channel |-> d.best, hit |-> hit2]
            /\ tickets' = rows
            /\ renders' = IF final THEN renders + 1 ELSE renders
            /\ llm_calls' = IF final /\ use_llm_final THEN llm_calls + 1
                            ELSE llm_calls
            /\ UNCHANGED <<now, streak, esc, found, rr, chan, fuse, cacheVars, appVars>>

\* The Memory Store as earlier requests of user u1 left it: empty, or with
\* the preference point reinforce_preference wrote for an earlier decision.
AgentStores ==
    {<<>>} \cup
    { <<Point(1, "u1", "preference", "email", w, PREF_TTL_DAYS, 0)>> :
        w \in 1..(MaxWeight - 2) }

\* The service before the request of a user with earlier requests.
AgentReady ==
    /\ chan = Idle /\ fuse = Idle
    /\ live = 0 /\ cache = NoEntry /\ look = Idle
    /\ now = 0 /\ next_id = 2 /\ memop = Idle
    /\ streak = [u \in Users |-> NoStreak]
    /\ tickets = <<>> /\ renders = 0 /\ llm_calls = 0
    /\ esc = Idle /\ found = Idle /\ rr = Idle
    /\ AppIdle
    /\ store \in AgentStores

\* A request arrives; AssistNew handles it.  The requests differ in what
\* the slot-filling gate reads; every lookup answers.
InitAgent ==
    /\ AgentReady
    /\ \E landmark \in Strs, photo \in Photos, pref \in PreferredChannels,
          auto_submit \in BOOLEAN, force_llm \in ForceLlm,
          urgency \in AgentUrgencies, kb_top \in KbTops,
          st \in {None, "down"} :
          agent = [op |-> "call", user_id |-> "u1", landmark |-> landmark,
                   photo |-> photo, preferred_channel |-> pref,
                   auto_submit |-> auto_submit, force_llm |-> force_llm,
                   urgency |-> urgency, kb_top |-> kb_top,
                   dir |-> "none", cases |-> "none",
                   portal_status |-> st]

NextAgent == AssistNew

SpecAgent == InitAgent /\ [][NextAgent]_vars

\* Relevance scores on both sides of the confidence thresholds; a
\* cross-encoder score can also be negative.
ScoreValues == {0 - 50, 0, 24, 25, 34, 35, 90}
\* The scores of a top hit: scored by the cross-encoder, or passed through
\* the no-op reranker with the score of the search only.
KbScores ==
    {[score |-> 50, rerank_score |-> <<v>>] : v \in ScoreValues}
    \cup {[score |-> v, rerank_score |-> <<>>] : v \in ScoreValues \cap Nat}

\* Requests that differ in what the lookups answer: the top hit and its
\* scores, the directory search, the similar-case search, the status
\* lookup, the image lookups.  The landmark is given.
InitAgentLookups ==
    /\ AgentReady
    /\ \E photo \in Photos, auto_submit \in BOOLEAN,
          kb_top \in {NoKb} \cup
                     {KbHit(p, rf, sc.score, sc.rerank_score) :
                        p \in KbProfiles, rf \in {<<>>, <<"photo">>},
                        sc \in KbScores},
          dir \in LookupOutcomes, cases \in LookupOutcomes,
          st \in {None, "down", StatusError} :
          agent = [op |-> "call", user_id |-> "u1", landmark |-> <<"x">>,
                   photo |-> photo, preferred_channel |-> None,
                   auto_submit |-> auto_submit, force_llm |-> "false",
                   urgency |-> "high", kb_top |-> kb_top,
                   dir |-> dir, cases |-> cases,
                   portal_status |-> st]

SpecAgentLookups == InitAgentLookups /\ [][NextAgent]_vars

\* Requests of a user who has a preference point and, from earlier feedback
\* calls, as many history points as a preference lookup returns hits.
InitAgentBacklog ==
    /\ chan = Idle /\ fuse = Idle
    /\ live = 0 /\ cache = NoEntry /\ look = Idle
    /\ now = 0 /\ next_id = 2 /\ memop = Idle
    /\ streak = [u \in Users |-> NoStreak]
    /\ tickets = <<>> /\ renders = 0 /\ llm_calls = 0
    /\ esc = Idle /\ found = Idle /\ rr = Idle
    /\ AppIdle
    /\ store = Append(HistoryBacklog(MEMORY_GET_LIMIT),
                      Point(1, "u1", "preference", "email", 1, PREF_TTL_DAYS, 0))
    /\ \E photo \in Photos, pref \in PreferredChannels, auto_submit \in BOOLEAN,
          urgency \in AgentUrgencies, kb_top \in KbTops, st \in {None, "down"} :
          agent = [op |-> "call", user_id |-> "u1", landmark |-> <<"x">>,
                   photo |-> photo, preferred_channel |-> pref,
                   auto_submit |-> auto_submit, force_llm |-> "false",
                   urgency |-> urgency, kb_top |-> kb_top,
                   dir |-> "none", cases |-> "none",
                   portal_status |-> st]

SpecAgentBacklog == InitAgentBacklog /\ [][NextAgent]_vars

(***************************************************************************)
(* The escalation ladder (core/response.py).  assist_new calls              *)
(* escalation_steps(sla_days) and escalate calls it with the days_waited   *)
(* of the request.                                                          *)
(***************************************************************************)
MaxSla == 8
MaxWaited == 10
MinWaited == 0 - 2

InitEscalation ==
    /\ chan = Idle /\ fuse = Idle
    /\ live = 0 /\ cache = NoEntry /\ look = Idle
    /\ MemIdle
    /\ agent = Idle /\ tickets = <<>> /\ renders = 0 /\ llm_calls = 0
    /\ found = Idle /\ rr = Idle
    /\ AppIdle
    /\ \E sla_days \in 1..MaxSla,
          waited_days \in {<<>>} \cup {<<n>> : n \in MinWaited..MaxWaited} :
          esc = [op |-> "call", sla_days |-> sla_days, waited_days |-> waited_days]

EscalationSteps ==
    /\ esc.op = "call"
    /\ esc' = [op |-> "done", sla_days |-> esc.sla_days,
               waited_days |-> esc.waited_days,
               out |-> escalation_steps(esc.sla_days, esc.waited_days)]
    /\ UNCHANGED <<chan, fuse, cacheVars, memVars, appVars, agent, tickets, renders,
                   llm_calls, found, rr>>

NextEscalation == EscalationSteps

SpecEscalation == InitEscalation /\ [][NextEscalation]_vars

(***************************************************************************)
(* The HTTP front end (app.py): POST /v1/complaints/assist.  The handler   *)
(* checks the text length, validates and stores each upload in turn,       *)
(* writes the session, runs the decay cleanup of the user and then routes  *)
(* on the intent; for intent new the orchestrator's assist_new (AssistNew) *)
(* answers the request.                                                     *)
(***************************************************************************)
SESSION_KEEP == 8

NoUpload == [present |-> FALSE]
Upload(type_ok, size_ok) ==
    [present |-> TRUE, type_ok |-> type_ok, size_ok |-> size_ok]
Uploads == {NoUpload} \cup {Upload(t, s) : t \in BOOLEAN, s \in BOOLEAN}
Intents == {"new", "procedure", "track", "escalate"}
TicketIds == {NoTicket, 1, 2}

\* validate_file: the status of the HTTPException it raises, 200 when it
\* returns the bytes.  The content type is checked before the size.
validate_file(upload) ==
    IF ~upload.type_ok THEN 400 ELSE IF ~upload.size_ok THEN 413 ELSE 200

\* The position of the first upload validate_file rejects, 0 when none.
first_rejected(ups) ==
    LET bad == {i \in DOMAIN ups : validate_file(ups[i]) # 200}
    IN  IF bad = {} THEN 0 ELSE CHOOSE i \in bad : \A j \in bad : i <= j

\* get_ticket: the row of the ticket id, if any.
get_ticket(rows, ticket_id) ==
    SelectSeq(rows, LAMBDA t : t.ticket_id = ticket_id)

\* CivicFixAgent.track
track(rows, ticket_id) ==
    LET t == get_ticket(rows, ticket_id)
    IN  IF t = <<>> THEN [found |-> FALSE, ticket_id |-> ticket_id]
        ELSE [found |-> TRUE] @@ t[1]

\* CivicFixAgent.escalate; kb_top is the first match of its procedure_qa.
escalate(rows, ticket_id, days_waited, kb_top) ==
    LET t == get_ticket(rows, ticket_id)
        sla == IF kb_sla_days(kb_top) # 0 THEN kb_sla_days(kb_top) ELSE 7
    IN  IF t = <<>> THEN [ok |-> FALSE]
        ELSE [ok |-> TRUE, ticket_id |-> ticket_id,
              current_status |-> t[1].status, days_waited |-> days_waited,
              sla_days |-> sla,
              recommended_escalation |-> escalation_steps(sla, <<days_waited>>)]

\* The request assist hands to assist_new.
assist_new_call(req) ==
    [op |-> "call", user_id |-> req.user_id, landmark |-> <<"x">>,
     photo |-> IF req.issue_photo.present
               THEN [present |-> TRUE, inferred |-> None, hint |-> None]
               ELSE NoPhoto,
     preferred_channel |-> None, auto_submit |-> req.auto_submit,
     force_llm |-> "false", urgency |-> "low", kb_top |-> req.kb_top,
     dir |-> req.dir, cases |-> "none", portal_status |-> None]

\* assist, from the text length check to the intent routing.  For intent
\* new the handler goes on in AssistNew.
Assist ==
    /\ app.op = "call"
    /\ \E req \in {app.req} :
       \E ups \in {SelectSeq(<<req.issue_photo, req.screenshot, req.audio>>,
                             LAMBDA u : u.present)} :
       \E bad \in {first_rejected(ups)} :
       \E past_uploads \in {~req.text_too_long /\ bad = 0} :
       \E to_delete \in {decay_to_delete(store, req.user_id, now)} :
       \E kept \in {IF past_uploads /\ to_delete # {}
                    THEN delete_points(store, to_delete) ELSE store} :
        LET stored == IF req.text_too_long THEN 0
                      ELSE IF bad = 0 THEN Len(ups) ELSE bad - 1
            no_ticket_id == /\ req.intent \in {"track", "escalate"}
                            /\ req.ticket_id = NoTicket
            status == IF req.text_too_long THEN 413
                      ELSE IF bad # 0 THEN validate_file(ups[bad])
                      ELSE IF no_ticket_id THEN 400
                      ELSE 200
            core == IF status # 200 THEN None
                    ELSE IF req.intent = "procedure" THEN "procedure_qa"
                    ELSE IF req.intent = "track" THEN "track"
                    ELSE IF req.intent = "escalate" THEN "escalate"
                    ELSE "assist_new"
            out == IF core = "track" THEN track(tickets, req.ticket_id)
                   ELSE IF core = "escalate"
                   THEN escalate(tickets, req.ticket_id, 0, req.kb_top)
                   ELSE [core |-> core]
        IN  /\ objects' = objects + stored
            /\ sessions' = IF past_uploads THEN Min(sessions + 1, SESSION_KEEP)
                           ELSE sessions
            /\ store' = kept
            /\ memop' = IF past_uploads
                        THEN [op |-> "decay", user |-> req.user_id,
                              returned |-> Cardinality(to_delete)]
                        ELSE memop
            /\ streak' = StreakAfter(kept)
            /\ agent' = IF core = "assist_new" THEN assist_new_call(req)
                        ELSE agent
            /\ app' = [op |-> "done", req |-> req, status |-> status,
                       core |-> core, out |-> out]
            /\ UNCHANGED <<now, next_id, tickets, renders, llm_calls, esc,
                           found, rr, chan, fuse, cacheVars, threads>>

\* The service when a request arrives: a new session or one with the
\* messages it keeps, a user without memory or with a feedback point past
\* its time to live, no ticket or a ticket submitted earlier.
InitApp ==
    /\ chan = Idle /\ fuse = Idle
    /\ live = 0 /\ cache = NoEntry /\ look = Idle
    /\ now = MaxNow /\ next_id = 2 /\ memop = Idle
    /\ streak = [u \in Users |-> NoStreak]
    /\ store \in {<<>>, <<Point(1, "u1", "history", None, 0, HISTORY_TTL_DAYS, 0)>>}
    /\ agent = Idle /\ renders = 0 /\ llm_calls = 0
    /\ tickets \in {<<>>, create_ticket(<<>>, "u1", "Pothole", "Municipal Roads",
                                        "portal", "low")}
    /\ esc = Idle /\ found = Idle /\ rr = Idle
    /\ sessions \in {0, SESSION_KEEP} /\ objects = 0 /\ threads = Idle
    /\ \E text_too_long \in BOOLEAN, issue_photo \in Uploads,
          screenshot \in Uploads, audio \in Uploads, intent \in Intents :
        \E ticket_id \in (IF intent \in {"track", "escalate"} THEN TicketIds
                          ELSE {NoTicket}),
           auto_submit \in (IF intent = "new" THEN BOOLEAN ELSE {FALSE}),
           kb_top \in (IF intent \in {"new", "escalate"}
                       THEN {NoKb} \cup
                            {KbHit(p, <<"photo">>, 50, <<30>>) :
                               p \in {q \in KbProfiles : q.sla_days = 5}}
                       ELSE {NoKb}) :
          app = [op |-> "call",
                 req |-> [user_id |-> "u1", text_too_long |-> text_too_long,
                          issue_photo |-> issue_photo, screenshot |-> screenshot,
                          audio |-> audio, intent |-> intent,
                          ticket_id |-> ticket_id, auto_submit |-> auto_submit,
                          kb_top |-> kb_top, dir |-> "none"]]

NextApp == Assist \/ AssistNew

SpecApp == InitApp /\ [][NextApp]_vars

(***************************************************************************)
(* Tickets (core/tickets.py): a client sends requests one after another,   *)
(* new complaints with or without auto_submit and track or escalate        *)
(* requests for a ticket id.  The requests carry no upload.                *)
(***************************************************************************)
MaxRequests == 3

TicketRequest(intent, ticket_id, auto_submit, kb_top, dir) ==
    [user_id |-> "u1", text_too_long |-> FALSE, issue_photo |-> NoUpload,
     screenshot |-> NoUpload, audio |-> NoUpload, intent |-> intent,
     ticket_id |-> ticket_id, auto_submit |-> auto_submit,
     kb_top |-> kb_top, dir |-> dir]
TicketRequests ==
    {TicketRequest("new", NoTicket, a, k, d) :
        a \in BOOLEAN,
        k \in {NoKb} \cup {KbHit(p, <<"photo">>, 50, <<30>>) :
                              p \in {q \in KbProfiles : q.sla_days = 5}},
        d \in {"none", "error"}}
    \cup {TicketRequest(i, t, FALSE, NoKb, "none") :
            i \in {"track", "escalate"}, t \in TicketIds}

\* The client sends its next request once the last one is answered.
NextRequest ==
    /\ app.op = "done" /\ agent.op # "call"
    /\ sessions < MaxRequests
    /\ \E req \in TicketRequests : app' = [op |-> "call", req |-> req]
    /\ UNCHANGED <<sessions, objects, threads, agent, tickets, renders,
                   llm_calls, esc, found, rr, memVars, chan, fuse, cacheVars>>

InitTickets ==
    /\ chan = Idle /\ fuse = Idle
    /\ live = 0 /\ cache = NoEntry /\ look = Idle
    /\ MemIdle
    /\ agent = Idle /\ tickets = <<>> /\ renders = 0 /\ llm_calls = 0
    /\ esc = Idle /\ found = Idle /\ rr = Idle
    /\ sessions = 0 /\ objects = 0 /\ threads = Idle
    /\ \E req \in TicketRequests : app = [op |-> "call", req |-> req]

NextTickets == Assist \/ AssistNew \/ NextRequest

SpecTickets == InitTickets /\ [][NextTickets]_vars

(***************************************************************************)
(* Claims about the Memory Store.                                          *)
(***************************************************************************)
\* C3: starting from a user with no preference record, after n >= 1
\* reinforce calls in a row the user has one preference record, of weight n
\* and of the channel of the latest call.
C3_ReinforceCountsLatestWins ==
    \A u \in Users : streak[u].n > 0 =>
        \E p \in PrefPoints(store, u) :
            /\ PrefPoints(store, u) = {p}
            /\ p.pref_weight = streak[u].n
            /\ p.pref_channel = streak[u].channel

\* C4: after decay_cleanup(user, now), of the points in its scope those
\* older than their ttl_days are gone and the others are all still there,
\* however many points the scope holds.
C4_DecayDeletesExactlyExpired ==
    [][memop'.op = "decay" =>
        LET kept == Range(store') IN
        \A i \in DOMAIN store :
            MatchesUser(store[i], memop'.user) =>
                IF now - store[i].last_updated > store[i].ttl_days
                THEN store[i] \notin kept
                ELSE store[i] \in kept]_vars

\* C5: after delete_user(u) no point of u remains, whatever its age, ttl
\* and type, so a preference lookup for u finds nothing; the points of the
\* other users are unchanged.
C5_DeleteUserErasesAll ==
    [][memop'.op = "delete_user" =>
        /\ UserPoints(store', memop'.user) = <<>>
        /\ first_preference_hits(store', memop'.user) = {NoHit}
        /\ \A u \in Users \ {memop'.user} :
              UserPoints(store', u) = UserPoints(store, u)]_vars

\* delete_user removed the user's point, which was younger than its ttl,
\* and left the other user's point.
C5_Witness ==
    /\ memop.op = "delete_user" /\ memop.removed = 1
    /\ Len(store) = 1 /\ store[1].user_id # memop.user
    /\ now = 0

(***************************************************************************)
(* Claims about the sparse index cache.                                    *)
(***************************************************************************)
\* Python's round(0.1 * n) for n >= 0: to the nearest integer, a half to
\* the even one.
RoundTenth(n) ==
    LET q == n \div 10
        r == n % 10
    IN  IF r < 5 THEN q
        ELSE IF r > 5 THEN q + 1
        ELSE IF q % 2 = 0 THEN q ELSE q + 1

\* C6: a lookup of a key that has an entry rebuilds it if and only if
\* |live_count - cached_count| >= max(3, round(0.1 * live_count)), live_count
\* the current number of matching documents, 0 included.  Stated for the
\* lookups whose count call answered.
C6_RebuildIffDrift ==
    (look.op = "lookup" /\ look.had_entry /\ look.count_ok) =>
        (look.rebuilt <=>
            Abs(look.live - look.cached) >= Max(3, RoundTenth(look.live)))

(***************************************************************************)
(* Claims about the channel recommender.                                   *)
(***************************************************************************)
\* The scoring rule as the specification states it, term by term (tenths).
UrgencyBase(c, urgency) ==
    CASE urgency = "high"   -> IF c = "helpline" \/ c = "email" THEN 20 ELSE 6
      [] urgency = "medium" -> IF c = "app" \/ c = "portal" THEN 12 ELSE 5
      [] urgency = "low"    -> IF c = "portal" \/ c = "app" THEN 10 ELSE 3
PortalPenalty(c, portal_live) == IF c = "portal" /\ ~portal_live THEN -25 ELSE 0
PrefBonus(c, pref) == IF pref # None /\ pref # "" /\ pref = c THEN 15 ELSE 0

\* C9: for every channel, urgency, portal liveness and user preference,
\* the score score_channel computes is the urgency base score, minus 2.5 for
\* a portal that is not live, plus 1.5 for the preferred channel.
C9_ScoreIsRuleSum ==
    chan.op = "done" =>
        /\ Len(chan.out.scored) = Len(chan.channels)
        /\ \A i \in DOMAIN chan.out.scored :
              LET c == chan.out.scored[i][1] IN
              chan.out.scored[i][2] =
                  UrgencyBase(c, chan.urgency)
                  + PortalPenalty(c, chan.out.portal_ok)
                  + PrefBonus(c, chan.user_pref)

\* A preferred portal that is down at medium urgency: 1.2 - 2.5 + 1.5 = 0.2.
C9_Witness ==
    /\ chan.op = "done"
    /\ chan.urgency = "medium" /\ chan.user_pref = "portal"
    /\ ~chan.out.portal_ok
    /\ <<"portal", 2>> \in Range(chan.out.scored)
    /\ <<"helpline", 5>> \in Range(chan.out.scored)

\* C10: when the portal is not live and the candidates hold portal and at
\* least one other channel, best is never portal, whatever the urgency and
\* the preference (portal included); with candidates [portal, helpline],
\* urgency high and no preference, best is helpline.
C10_PortalDownNeverBest ==
    chan.op = "done" =>
        /\ ( /\ ~chan.out.portal_ok
             /\ "portal" \in Range(chan.channels)
             /\ Range(chan.channels) # {"portal"} )
           => chan.out.best # "portal"
        /\ ( /\ chan.channels = <<"portal", "helpline">>
             /\ chan.urgency = "high" /\ chan.user_pref = None
             /\ chan.portal_status = "down" )
           => chan.out.best = "helpline"

\* The user prefers the portal, the portal is down, another channel wins.
C10_Witness ==
    /\ chan.op = "done"
    /\ chan.channels = <<"portal", "office">>
    /\ chan.user_pref = "portal" /\ chan.urgency = "medium"
    /\ chan.portal_status = "degraded"
    /\ chan.out.best = "office" /\ chan.out.backup = "portal"

(***************************************************************************)
(* Claims about the slot-filling gate.                                     *)
(***************************************************************************)
\* A null or blank value of the provided dict: no value for the name, or a
\* string of nothing but whitespace.
IsBlank(v) == \A i \in DOMAIN v : v[i] = " "
NullOrBlank(given, f) == f \notin DOMAIN given \/ IsBlank(given[f])

\* The names of required that do not end in _optional and have a null or
\* blank provided value, in the order of required.
RequiredButBlank(required, given) ==
    SelectSeq(required, LAMBDA f : ~endswith_optional(f) /\ NullOrBlank(given, f))

\* C1: the result of assist_new has need_more_info = true exactly when
\* auto_submit is false and some name of the top hit's required_fields that
\* does not end in "_optional" has a null or blank provided value;
\* missing_fields is then exactly those names, in required_fields order; with
\* auto_submit = true need_more_info is false whatever is missing.
C1_GateIffRequiredBlank ==
    agent.op = "done" =>
        LET given   == provided(CITY, WARD_ID, agent.landmark, DATE_TIME, TEXT,
                                agent.photo.present)
            lacking == RequiredButBlank(kb_required_fields(agent.kb_top), given)
        IN  /\ agent.out.need_more_info <=> (~agent.auto_submit /\ lacking # <<>>)
            /\ agent.out.need_more_info => agent.out.missing_fields = lacking
            /\ agent.auto_submit => ~agent.out.need_more_info

\* A request without a photo and with a whitespace-only landmark, for an
\* entry that also lists an optional field: landmark and photo are asked for.
C1_Witness ==
    /\ agent.op = "done"
    /\ ~agent.auto_submit /\ agent.landmark = <<" ">> /\ ~agent.photo.present
    /\ agent.kb_top.hit
    /\ agent.kb_top.required_fields =
          <<"location", "landmark", "photo", "date_time", "pole_number_optional">>
    /\ agent.out.need_more_info
    /\ agent.out.missing_fields = <<"landmark", "photo">>

\* C2: when assist_new returns need_more_info = true, the Memory Store is as
\* it was before the request, no ticket was created, no template was
\* rendered and no rendering was requested from the language model.
C2_GateStopHasNoEffect ==
    [][(agent.op = "call" /\ agent'.op = "done" /\ agent'.out.need_more_info)
        => /\ store' = store /\ next_id' = next_id
           /\ tickets' = tickets
           /\ renders' = renders
           /\ llm_calls' = llm_calls]_vars

\* A request that asked for the language model and stopped at the gate, of
\* a user whose stored preference is still the weight-1 point of before.
C2_Witness ==
    /\ agent.op = "done" /\ agent.out.need_more_info
    /\ agent.force_llm = "true"
    /\ store = <<Point(1, "u1", "preference", "email", 1, PREF_TTL_DAYS, 0)>>
    /\ tickets = <<>> /\ renders = 0 /\ llm_calls = 0

(***************************************************************************)
(* Claims about the order the recommender returns.                         *)
(***************************************************************************)
\* The permutations of 1..n.
Perms(n) == {p \in [1..n -> 1..n] : \A i, j \in 1..n : i # j => p[i] # p[j]}

\* C11: the trace's scored list is the candidate list reordered by
\* descending score, candidates of equal score in candidate order, each
\* with its score under the portal-liveness flag of the trace; best is its
\* first channel and backup its second, None when there is none.
C11_ScoredIsStableDescending ==
    chan.op = "done" =>
        LET n      == Len(chan.channels)
            scored == chan.out.scored
            ok     == chan.portal_status \in {None, "up"}
        IN  /\ chan.out.portal_ok = ok
            /\ Len(scored) = n
            /\ \E p \in Perms(n) :
                  /\ \A i \in 1..n :
                        scored[i] = <<chan.channels[p[i]],
                                      score_channel(chan.channels[p[i]], chan.urgency,
                                                    ok, chan.user_pref)>>
                  /\ \A i, j \in 1..n :
                        i < j => \/ scored[i][2] > scored[j][2]
                                 \/ scored[i][2] = scored[j][2] /\ p[i] < p[j]
            /\ chan.out.best = (IF n > 0 THEN scored[1][1] ELSE None)
            /\ chan.out.backup = (IF n > 1 THEN scored[2][1] ELSE None)

\* Two candidates tie behind a third that is listed last: the third comes
\* first and the tied ones keep their order.
C11_Witness ==
    /\ chan.op = "done"
    /\ chan.channels = <<"office", "app", "helpline">>
    /\ chan.urgency = "high" /\ chan.user_pref = None
    /\ chan.out.scored = <<<<"helpline", 20>>, <<"office", 6>>, <<"app", 6>>>>
    /\ chan.out.best = "helpline" /\ chan.out.backup = "office"

C13_FiveStepsCappedByWaited ==
    esc.op = "done" =>
        LET sla    == esc.sla_days
            waited == IF Len(esc.waited_days) = 0 THEN sla ELSE esc.waited_days[1]
            least(a, b) == IF a < b THEN a ELSE b
        IN  /\ Len(esc.out) = 5
            /\ [i \in 1..5 |-> esc.out[i].day]
                 = <<0, least(1, waited), least(sla, waited),
                     least(sla + 2, waited + 2), least(sla + 5, waited + 5)>>

\* Three days into an SLA of seven: the days waited cap every later step.
C13_Witness ==
    /\ esc.op = "done" /\ esc.sla_days = 7 /\ esc.waited_days = <<3>>
    /\ [i \in 1..5 |-> esc.out[i].day] = <<0, 1, 3, 5, 8>>

\* The three-level label of a relevance score in hundredths.
LabelOf(score) ==
    IF score >= 35 THEN "high" ELSE IF score >= 25 THEN "medium" ELSE "low"

\* C14: the confidence of every decision assist_new returns, final or
\* need_more_info, is the label of the score of its first evidence entry,
\* and low when it has no evidence, with either reranker.
C14_ConfidenceIsLabelOfTopEvidence ==
    (agent.op = "done" /\ "raised" \notin DOMAIN agent.out) =>
        agent.out.confidence =
            (IF agent.out.evidence = <<>> THEN "low"
             ELSE LabelOf(agent.out.evidence[1].score))

(***************************************************************************)
(* Claims about hybrid search and the reranker.                            *)
(***************************************************************************)
\* C15: a search never fails because of the sparse side, and when the
\* sparse index of the key holds no document (or could not be built or
\* counted) it returns the dense list unmodified: the same hits, in the same
\* order, with the same fields.
C15_SparseSideNeverChangesDense ==
    found.op = "search" =>
        /\ ~found.raised
        /\ found.indexed = 0 => found.out = found.dense

\* C16: rerank returns a permutation of its candidates, none dropped, added
\* or duplicated; the cross-encoder's result is ordered by non-increasing
\* rerank_score with candidates of equal score in input order; the no-op
\* reranker returns the candidates in input order with their scores
\* unchanged.
C16_RerankIsStablePermutation ==
    rr.op = "done" =>
        LET n == Len(rr.docs)
        IN  /\ Len(rr.out) = n
            /\ rr.reranker = "Reranker" => rr.out = rr.docs
            /\ rr.reranker = "CrossEncoderReranker" =>
                  \E p \in Perms(n) :
                    /\ \A i \in 1..n :
                          /\ rr.out[i].id = rr.docs[p[i]].id
                          /\ rr.out[i].score = rr.docs[p[i]].score
                          /\ rr.out[i].rerank_score = rr.predicted[p[i]]
                    /\ \A i, j \in 1..n :
                          i < j => \/ rr.out[i].rerank_score > rr.out[j].rerank_score
                                   \/ /\ rr.out[i].rerank_score = rr.out[j].rerank_score
                                      /\ p[i] < p[j]

\* The last candidate scores highest and the first two tie below it.
C16_Witness ==
    /\ rr.op = "done" /\ rr.reranker = "CrossEncoderReranker"
    /\ Len(rr.docs) = 3 /\ rr.predicted = <<0, 0, 1>>
    /\ [i \in 1..3 |-> rr.out[i].id] = <<3, 1, 2>>

\* C17: an assist request rejected for an input error (text too long, an
\* upload of a wrong content type or over the size limit, intent track or
\* escalate without ticket_id) never reaches the core and changes nothing:
\* no session written, no object stored, the Memory Store neither read nor
\* modified (decay cleanup included), no search run, no ticket created.
C17_RejectedRequestChangesNothing ==
    [][(app.op = "call" /\ app'.op = "done" /\ app'.status # 200) =>
            /\ app'.core = None
            /\ sessions' = sessions
            /\ objects' = objects
            /\ store' = store /\ memop' = memop
            /\ found' = found /\ cache' = cache
            /\ tickets' = tickets /\ agent' = agent]_vars

\* C18: a failure of the directory search, of the similar-case search or of
\* the channel-status lookup never fails assist_new: the failed lookup counts
\* as one without hits and the decision is produced from the knowledge-base
\* result.
LookupFailed(r) ==
    r.dir = "error" \/ r.cases = "error" \/ r.portal_status = StatusError
C18_LookupFailureIsNotFatal ==
    (agent.op = "done" /\ LookupFailed(agent)) =>
        /\ "raised" \notin DOMAIN agent.out
        /\ "need_more_info" \in DOMAIN agent.out
        /\ agent.out.evidence
              = evidence(agent.kb_top, FALSE, agent.photo.inferred # None)
           \/ agent.out.evidence = kb_evidence(agent.kb_top)

\* C19: when the knowledge-base search, the directory search, the
\* similar-case search and the channel-status lookup all return no hits and
\* no image is supplied, assist_new does not fail: it returns a decision
\* whose category is "General" and whose confidence is "low".
NothingRetrieved(r) ==
    /\ ~r.kb_top.hit /\ r.dir = "none" /\ r.cases = "none"
    /\ r.portal_status = None /\ ~r.photo.present
C19_EmptyRetrievalGivesGeneralLow ==
    (agent.op = "done" /\ NothingRetrieved(agent)) =>
        /\ "raised" \notin DOMAIN agent.out
        /\ ~agent.out.need_more_info
        /\ agent.out.recommended_action.category = "General"
        /\ agent.out.confidence = "low"
C19_Witness ==
    /\ agent.op = "done" /\ NothingRetrieved(agent)
    /\ ~agent.out.need_more_info
    /\ agent.out.recommended_action.category = "General"
    /\ agent.out.confidence = "low"

\* C20: an intent=new request with auto_submit=true that succeeds returns a
\* final decision (need_more_info not true) with a ticket_id and
\* submission_status "submitted"; any later intent=track request with that
\* ticket_id succeeds and finds the ticket (found=true) with status
\* "submitted"; a ticket is created only when auto_submit is true.
TicketIdsOf(rows) == {rows[i].ticket_id : i \in DOMAIN rows}
AnswersNew == agent.op = "call" /\ agent'.op = "done"
AnswersTrack == app.op = "call" /\ app'.op = "done" /\ app.req.intent = "track"
C20_AutoSubmitTicketIsTrackable ==
    [][/\ (AnswersNew /\ agent.auto_submit /\ "raised" \notin DOMAIN agent'.out) =>
            /\ ~agent'.out.need_more_info
            /\ agent'.out.submission_status = "submitted"
            /\ agent'.out.ticket_id # NoTicket
            /\ agent'.out.ticket_id \in TicketIdsOf(tickets')
            /\ agent'.out.ticket_id \notin TicketIdsOf(tickets)
       /\ TicketIdsOf(tickets) \subseteq TicketIdsOf(tickets')
       /\ (AnswersTrack /\ app.req.ticket_id \in TicketIdsOf(tickets)) =>
            /\ app'.status = 200
            /\ app'.out.found
            /\ app'.out.ticket_id = app.req.ticket_id
            /\ app'.out.status = "submitted"
       /\ tickets' # tickets =>
            /\ AnswersNew /\ agent.auto_submit
            /\ Len(tickets') = Len(tickets) + 1
      ]_vars
C20_Witness ==
    /\ app.op = "done" /\ app.req.intent = "track" /\ app.status = 200
    /\ agent.op = "done" /\ agent.auto_submit
    /\ "raised" \notin DOMAIN agent.out
    /\ agent.out.ticket_id = 2
    /\ app.req.ticket_id = 2
    /\ app.out.found /\ app.out.status = "submitted"

\* C21: when lookups of the same key run concurrently and find the entry
\* missing or stale, at most one rebuild of the key is in flight at any time,
\* and a reader sees the complete previous entry or the complete new one,
\* never a partly built one.
Rebuilding(t) == threads[t].pc \in {"scroll", "store"}
C21_AtMostOneRebuildInFlight ==
    /\ \A t, u \in Threads : (Rebuilding(t) /\ Rebuilding(u)) => t = u
    /\ \A t \in Threads :
          "saw" \in DOMAIN threads[t] =>
              \/ threads[t].saw = NoEntry
              \/ threads[t].saw \in {build_bm25_from_qdrant(n) :
                                        n \in 0..Len(CollectionDocs)}

\* C22: for a document id that occurs in more than one input list of
\* rrf_fuse, the output record of that id carries the payload and fields of
\* its first occurrence (first list first).
FirstListWith(lists, id) ==
    CHOOSE j \in DOMAIN lists :
        /\ id \in IdsOf(lists[j])
        /\ \A i \in DOMAIN lists : id \in IdsOf(lists[i]) => j <= i
C22_FirstOccurrenceIsKept ==
    fuse.op = "done" =>
        \A n \in DOMAIN fuse.out :
            fuse.out[n].origin = FirstListWith(fuse.lists, fuse.out[n].id)

\* C23: decay_cleanup is idempotent: run twice in a row with the same now
\* and the same scope, the second run deletes nothing, returns 0 and leaves
\* the store as the first run left it; a run with no expired point in its
\* scope changes nothing.
ExpiredInScope(points, user, t) ==
    {i \in DOMAIN points : MatchesUser(points[i], user) /\ is_expired(points[i], t)}
C23_DecayIsIdempotent ==
    [][memop'.op = "decay" =>
        /\ (memop.op = "decay" /\ memop.user = memop'.user) =>
                (memop'.returned = 0 /\ store' = store)
        /\ ExpiredInScope(store, memop'.user, now) = {} =>
                (memop'.returned = 0 /\ store' = store)]_vars

\* C24: decay_cleanup never raises and never deletes because of a malformed
\* point: a point whose last_updated is missing or unparseable is retained,
\* and a point whose ttl_days is missing or unparseable is treated as one
\* with a ttl of 180 days.
C24_MalformedPointsAreSafe ==
    [][memop'.op = "decay" =>
        /\ ~memop'.raised
        /\ \A i \in DOMAIN store :
              /\ store[i].last_updated.kind # "value" =>
                    store[i] \in Range(store')
              /\ (/\ store[i].ttl_days.kind # "value"
                  /\ store[i].last_updated.kind = "value"
                  /\ MatchesUser(store[i], memop'.user)) =>
                    (store[i] \in Range(store')
                        <=> ~(store[i].last_updated.val < now - 180))]_vars

\* C25: after an assist_new request that returns a final decision, the
\* user's stored preference record names the returned best_channel and its
\* weight is one more than before the request (1 if the user had no
\* preference record); the preference used for scoring inside the request
\* is the one read before this reinforcement.
ReturnsFinal ==
    /\ agent.op = "call" /\ agent'.op = "done"
    /\ "raised" \notin DOMAIN agent'.out
    /\ ~agent'.out.need_more_info
C25_FinalDecisionReinforcesBest ==
    [][ReturnsFinal =>
        LET before == PrefPoints(store, agent.user_id)
            after  == PrefPoints(store', agent.user_id)
            best   == agent'.out.recommended_action.best_channel
        IN  /\ \E p \in after :
                  /\ after = {p}
                  /\ p.pref_channel = best
                  /\ IF before = {} THEN p.pref_weight = 1
                     ELSE \E q \in before : /\ before = {q}
                                             /\ p.pref_weight = q.pref_weight + 1
            /\ \E hit \in first_preference_hits(store, agent.user_id) :
                  best = inferred(agent, hit).best]_vars

\* C26: if delete_user(u) runs while a reinforce(u, c) is between its
\* preference lookup and its upsert, then after both the store holds no
\* record of u with data read before the deletion (the old id, the old
\* accumulated weight): the in-flight reinforcement does not undo the
\* erasure.
ErasedSinceLookup(t) ==
    /\ threads[t].pc = "upsert" /\ threads[t].hit # NoHit
    /\ \A i \in DOMAIN store : store[i].id # threads[t].hit
C26_ErasureIsNotUndone ==
    [][\A t \in Threads :
        (ErasedSinceLookup(t) /\ threads'[t].pc = "idle") =>
            \A i \in DOMAIN store' :
                store'[i].user_id = threads[t].user =>
                    /\ store'[i].id # threads[t].hit
                    /\ store'[i].pref_weight = 1]_vars

\* C27: after any sequence of reinforce, feedback, decay_cleanup and
\* delete_user operations run one after another, each user has at most one
\* record of type preference, however many history records the user has.
C27_AtMostOnePreferencePerUser ==
    \A u \in Users : Cardinality(PrefPoints(store, u)) <= 1

\* C28: if the collection does not change between two consecutive lookups
\* of a key, the second lookup does not rebuild the index, whatever the
\* size of the collection (sizes above the maximum fetch size included);
\* and the cached snapshot never holds more documents than that maximum.
\* Stated for pairs of lookups whose count calls answered.
C28_UnchangedCollectionIsNotRebuilt ==
    [][/\ (look.op = "lookup" /\ look'.op = "lookup" /\ live' = live
           /\ look.count_ok /\ look'.count_ok) => ~look'.rebuilt
       /\ cache'.present => cache'.count <= FETCH_LIMIT]_vars

\* C29: in every final decision of assist_new backup_channel differs from
\* best_channel, for every candidate channel list of the top hit without
\* repeated channels (an empty list and a single-channel list, where
\* defaults are substituted, included).
DistinctChannels(l) == \A i, j \in DOMAIN l : i # j => l[i] # l[j]
C29_BackupDiffersFromBest ==
    (/\ agent.op = "done" /\ "raised" \notin DOMAIN agent.out
     /\ ~agent.out.need_more_info
     /\ DistinctChannels(kb_channels(agent.kb_top))) =>
        agent.out.recommended_action.backup_channel
            # agent.out.recommended_action.best_channel

\* C30: for every integer days_waited the escalate intent passes on (zero and
\* negative ones included) the trigger days of the five escalation steps are
\* non-negative and non-decreasing from the first step to the fifth.
C30_EscalationDaysNonNegativeNonDecreasing ==
    (esc.op = "done" /\ esc.waited_days # <<>>) =>
        /\ \A i \in 1..5 : esc.out[i].day >= 0
        /\ \A i \in 1..4 : esc.out[i].day <= esc.out[i + 1].day

====
